---- MODULE Spec2Model ----
(***************************************************************************)
(* Model of deaduction.pylib.mathobj.math_object: the MathObject/BoundVar  *)
(* term heap, the registry kept in MathObject's class attributes, the      *)
(* construction entry point from_info_and_children, and the equality and   *)
(* containment algorithms.                                                 *)
(*                                                                         *)
(* Python objects live in `heap`, a sequence of records; an object's       *)
(* identity is its index.  Python's 0-based children[k] is children[k+1].  *)
(***************************************************************************)
EXTENDS Integers, Sequences, FiniteSets, TLC

VARIABLES
    heap,                           \* every MathObject / BoundVar instance
    Variables,                      \* MathObject.Variables: identifier -> object
    constants,                      \* MathObject.constants: name -> object
    number_sets,                    \* MathObject.number_sets
    bound_var_counter,              \* MathObject.bound_var_counter
    last_used_implicit_definition,  \* MathObject.last_used_implicit_definition
    last_rw_object,                 \* MathObject.last_rw_object
    roots,                          \* the terms built from the record streams
    generation,                     \* number of clear() calls so far
    calls,                          \* number of top-level calls made on the terms
    stale,                          \* objects that existed when clear() last returned
    definition_patterns,            \* MathObject.definition_patterns
    implicit_definitions,           \* MathObject.implicit_definitions
    cvars,                          \* the configuration read through cvars.get
    local_context,                  \* BoundVar._local_context, for the bound variables where it is not []
    threads,                        \* the equality calls that run concurrently: their frames and results
    goals,                          \* the Goal instances: context, target, and the tags compare has set
    ret                             \* the last call: operation, arguments, result

vars == <<heap, Variables, constants, number_sets, bound_var_counter,
          last_used_implicit_definition, last_rw_object, roots, generation,
          calls,
          stale,
          definition_patterns,
          implicit_definitions,
          cvars,
          local_context,
          threads,
          goals, ret>>

-----------------------------------------------------------------------------
(* Bounds *)

MaxDepth == 2       \* nesting depth of the record trees of the term specification
MaxCalls == 2       \* top-level calls in one behaviour of the term specification
MaxObjects == 7     \* heap size up to which the registry specification constructs
MaxClears == 1      \* clear() calls in one behaviour of the registry specification
MaxArgs == 3        \* arguments applied one at a time in the application specification

-----------------------------------------------------------------------------
(* Python values.  Strings are ASCII: the quantifier nodes are written     *)
(* QUANT_FORALL, QUANT_EXISTS, QUANT_EXISTS_UNIQUE and the four number sets *)
(* N, Z, Q, R.                                                              *)

None == "<None>"          \* a missing info key, as returned by info.get(...)
NoObject == 0             \* None where an object is expected
DefaultNb == 0 - 1        \* the default bound_var_nb
NoNb == 0 - 2             \* info has no 'bound_var_nb' key

NO_MATH_TYPE == 1
PROP == 2

NO_NAME == "NO NAME"
untouched_bound_var_names == {"RealSubGroup", "_inst_1", "_inst_2", "inst_3"}
NUMBER_SETS_LIST == <<"N", "Z", "Q", "R">>

NewObject(cls, node, name, children, math_type) ==
    [cls |-> cls, node |-> node, name |-> name, value |-> None,
     children |-> children, math_type |-> math_type,
     bound_var_nb |-> NoNb, lean_name |-> None, is_unnamed |-> FALSE,
     parent |-> NoObject, identifier |-> 0]

ModuleObjects ==
    << NewObject("MathObject", "not provided", None, <<>>, NoObject),
       NewObject("MathObject", "PROP", None, <<>>, NoObject) >>

is_bound_var(h, o) == h[o].cls = "BoundVar"

math_type(h, o) ==
    IF h[o].math_type = NoObject THEN NO_MATH_TYPE ELSE h[o].math_type

is_no_math_type(o) == o = NO_MATH_TYPE

display_name(h, o) == IF h[o].name # None THEN h[o].name ELSE "*no_name*"

BinderNodes ==
    {"QUANT_FORALL", "QUANT_EXISTS", "QUANT_EXISTS_UNIQUE", "SET_INTENSION",
     "LAMBDA", "LOCAL_CONSTANT"}

has_bound_var(h, o) ==
    /\ h[o].node \in BinderNodes
    /\ Len(h[o].children) = 3
    /\ is_bound_var(h, h[o].children[2])

BoundVars(h) == {o \in 1..Len(h) : is_bound_var(h, o)}

-----------------------------------------------------------------------------
(* Equality.  A call works on st = [heap, cnt, log]: the heap (whose       *)
(* bound_var_nb fields it writes), MathObject.bound_var_counter, and the    *)
(* set of BoundVar.__eq__ evaluations made so far in the top-level call.    *)
(* It yields [res, exc, heap, cnt, log]; exc means that an exception        *)
(* propagated out of the call.                                              *)

Return(res, st) ==
    [res |-> res, exc |-> FALSE, heap |-> st.heap, cnt |-> st.cnt,
     log |-> st.log]

Raise(st) ==
    [res |-> FALSE, exc |-> TRUE, heap |-> st.heap, cnt |-> st.cnt,
     log |-> st.log]

StateOf(r) == [heap |-> r.heap, cnt |-> r.cnt, log |-> r.log]

\* "v = value" followed by the statements F(v): the value is computed once
Once(value, F(_)) == CHOOSE out \in {F(v) : v \in {value}} : TRUE

bound_var_nb(h, o) == h[o].bound_var_nb

mark_identical_bound_vars(self, other, st) ==
    LET n == st.cnt + 1 IN
    [st EXCEPT !.cnt = n,
               !.heap = [[st.heap EXCEPT ![self].bound_var_nb = n]
                            EXCEPT ![other].bound_var_nb = n]]

unmark_bound_var(self, st) ==
    [st EXCEPT !.heap[self].bound_var_nb = DefaultNb]

BoundVarEqValue(self, other, h) ==
    IF self = other THEN TRUE
    ELSE IF is_bound_var(h, other)
         THEN IF bound_var_nb(h, self) # DefaultNb
              THEN bound_var_nb(h, self) = bound_var_nb(h, other)
              ELSE h[self].name = h[other].name
         ELSE FALSE

BoundVarEq(self, other, st) ==
    LET h == st.heap
        res == BoundVarEqValue(self, other, h)
        entry == [self |-> self, other |-> other,
                  nb_self |-> bound_var_nb(h, self),
                  nb_other |-> bound_var_nb(h, other),
                  name_self |-> h[self].name,
                  name_other |-> h[other].name,
                  other_is_bound_var |-> is_bound_var(h, other),
                  res |-> res]
    IN Return(res, [st EXCEPT !.log = @ \cup {entry}])

RECURSIVE PyEq(_, _, _)
RECURSIVE MathObjectEq(_, _, _)
RECURSIVE EqStructure(_, _, _)
RECURSIVE EqBinders(_, _, _)
RECURSIVE EqChildren(_, _, _, _, _)

\* a == b as Python evaluates it: the reflected method of the right operand
\* runs first when its class is a proper subclass of the left operand's
\* class; neither __eq__ returns NotImplemented.
PyEq(a, b, st) ==
    IF is_bound_var(st.heap, a) THEN BoundVarEq(a, b, st)
    ELSE IF is_bound_var(st.heap, b) THEN BoundVarEq(b, a, st)
    ELSE MathObjectEq(a, b, st)

\* the loop "for child0, child1 in zip(...)": no break, so every pair is
\* compared; an exception leaves the loop at once.
EqChildren(self, other, i, equal, st) ==
    IF i > Len(st.heap[self].children) THEN Return(equal, st)
    ELSE Once(PyEq(st.heap[self].children[i], st.heap[other].children[i],
                   st),
              LAMBDA r :
                IF r.exc THEN r
                ELSE EqChildren(self, other, i + 1, equal /\ r.res,
                                StateOf(r)))

SameHead(h, self, other) ==
    /\ h[self].node = h[other].node
    /\ is_bound_var(h, self) = is_bound_var(h, other)
    /\ h[self].name = h[other].name
    /\ h[self].value = h[other].value

\* the bound variables are marked, the children compared, the marks removed
EqBinders(self, other, st) ==
    LET h == st.heap
        bound_var_1 == h[self].children[2]
        bound_var_2 == h[other].children[2]
    IN Once(EqChildren(self, other, 1, TRUE,
                       mark_identical_bound_vars(bound_var_1, bound_var_2,
                                                 st)),
            LAMBDA loop :
              IF loop.exc THEN loop
              \* only BoundVar has unmark_bound_var: AttributeError
              ELSE IF ~is_bound_var(h, bound_var_2)
              THEN Raise(unmark_bound_var(bound_var_1, StateOf(loop)))
              ELSE Return(loop.res,
                          unmark_bound_var(bound_var_2,
                              unmark_bound_var(bound_var_1,
                                               StateOf(loop)))))

\* __eq__ from the test of node, bound var, name, value on
EqStructure(self, other, st) ==
    LET h == st.heap IN
    IF ~SameHead(h, self, other) THEN Return(FALSE, st)
    ELSE Once(PyEq(math_type(h, self), math_type(h, other), st),
              LAMBDA mt :
                IF mt.exc THEN mt
                ELSE IF ~mt.res THEN Return(FALSE, StateOf(mt))
                ELSE IF Len(h[self].children) # Len(h[other].children)
                THEN Return(FALSE, StateOf(mt))
                ELSE IF ~has_bound_var(h, self)
                THEN EqChildren(self, other, 1, TRUE, StateOf(mt))
                ELSE EqBinders(self, other, StateOf(mt)))

\* MathObject.__eq__ with "return False" in the identity shortcut
MathObjectEqIdentityFalse(self, other, st) ==
    IF self = other THEN Return(FALSE, st)
    ELSE IF is_no_math_type(self) \/ is_no_math_type(other)
    THEN Return(TRUE, st)
    ELSE EqStructure(self, other, st)

MathObjectEq(self, other, st) ==
    IF self = other THEN Return(TRUE, st)
    ELSE IF is_no_math_type(self) \/ is_no_math_type(other)
    THEN Return(TRUE, st)
    ELSE EqStructure(self, other, st)

-----------------------------------------------------------------------------
(* Containment.  It yields [val, exc, heap, cnt, log].                     *)

RECURSIVE contains(_, _, _)
RECURSIVE ContainsChildren(_, _, _, _, _)
RECURSIVE SumChildren(_, _, _)
RECURSIVE CountFrom(_, _, _)

Counted(val, exc, st) ==
    [val |-> val, exc |-> exc, heap |-> st.heap, cnt |-> st.cnt,
     log |-> st.log]

\* one pass over self.children calling child.contains(other), summing
ContainsChildren(self, other, i, total, st) ==
    IF i > Len(st.heap[self].children) THEN Counted(total, FALSE, st)
    ELSE Once(contains(st.heap[self].children[i], other, st),
              LAMBDA r :
                IF r.exc THEN r
                ELSE ContainsChildren(self, other, i + 1, total + r.val,
                                      StateOf(r)))

\* the children are visited twice: by the loop that logs each child's
\* count, then by sum([...])
SumChildren(self, other, st) ==
    Once(ContainsChildren(self, other, 1, 0, st),
         LAMBDA first :
           IF first.exc THEN first
           ELSE ContainsChildren(self, other, 1, 0, StateOf(first)))

\* what contains does on a term that is not NO_MATH_TYPE
CountFrom(self, other, st) ==
    Once(MathObjectEq(self, other, st),
         LAMBDA e :
           IF e.exc THEN Counted(0, TRUE, e)
           ELSE IF e.res THEN Counted(1, FALSE, e)
           ELSE SumChildren(self, other, StateOf(e)))

\* contains without "if self is MathObject.NO_MATH_TYPE: return 0"
containsNoSentinelTest(self, other, st) == CountFrom(self, other, st)

\* contains without "if MathObject.__eq__(self, other): return 1"
containsChildrenOnly(self, other, st) ==
    IF self = NO_MATH_TYPE THEN Counted(0, FALSE, st)
    ELSE SumChildren(self, other, st)

contains(self, other, st) ==
    IF self = NO_MATH_TYPE THEN Counted(0, FALSE, st)
    ELSE CountFrom(self, other, st)

-----------------------------------------------------------------------------
(* Construction.  It works on st = [heap, Variables, constants,            *)
(* number_sets] and yields [obj, exc] together with the state it leaves.    *)
(* A record of the parser is info = [node_name, name, bound_var_suffix,     *)
(* identifier, math_type]: name is the 'name' attribute without the         *)
(* '.BoundVar' suffix, bound_var_suffix tells whether it carried it,        *)
(* identifier is 0 and math_type is NoObject when the key is missing.       *)

Info(node_name, name, bound_var_suffix, identifier, mt) ==
    [node_name |-> node_name, name |-> name,
     bound_var_suffix |-> bound_var_suffix, identifier |-> identifier,
     math_type |-> mt]

Built(obj, st) ==
    [obj |-> obj, exc |-> FALSE, heap |-> st.heap, Variables |-> st.Variables,
     constants |-> st.constants, number_sets |-> st.number_sets]

Failed(st) ==
    [obj |-> NoObject, exc |-> TRUE, heap |-> st.heap,
     Variables |-> st.Variables, constants |-> st.constants,
     number_sets |-> st.number_sets]

RegistryOf(r) ==
    [heap |-> r.heap, Variables |-> r.Variables, constants |-> r.constants,
     number_sets |-> r.number_sets]

Range(seq) == {seq[i] : i \in 1..Len(seq)}

IndexOf(seq, x) == CHOOSE i \in 1..Len(seq) : seq[i] = x

Put(f, k, v) == [x \in DOMAIN f \cup {k} |-> IF x = k THEN v ELSE f[x]]

\* MathObject.__init__ without the uncurrying
MathObjectInitNoUncurry(cls, node, name, identifier, children, mt, st) ==
    LET self == Len(st.heap) + 1
        h1 == Append(st.heap, [NewObject(cls, node, name, children, mt)
                                   EXCEPT !.identifier = identifier])
    IN IF node = "APPLICATION" /\ Len(children) = 0 THEN Failed(st)
       ELSE Built(self,
                  [st EXCEPT !.heap =
                      IF has_bound_var(h1, self)
                      THEN [h1 EXCEPT ![children[2]].parent = self,
                                      ![children[2]].math_type = children[1]]
                      ELSE h1])

\* MathObject.__init__ (also run by BoundVar.__init__): the new object is
\* heap[Len(heap) + 1]; it fails when an APPLICATION lacks the children the
\* uncurrying reads.
MathObjectInit(cls, node, name, identifier, children, mt, st) ==
    LET h == st.heap
        self == Len(h) + 1
        fresh == [NewObject(cls, node, name, children, mt)
                     EXCEPT !.identifier = identifier]
        h1 == Append(h, fresh)
        h2 == IF has_bound_var(h1, self)
              THEN [h1 EXCEPT ![children[2]].parent = self,
                              ![children[2]].math_type = children[1]]
              ELSE h1
    IN IF node # "APPLICATION" THEN Built(self, [st EXCEPT !.heap = h2])
       ELSE IF Len(children) = 0 THEN Failed(st)
       ELSE IF h[children[1]].node # "APPLICATION"
       THEN Built(self, [st EXCEPT !.heap = h2])
       ELSE IF Len(children) < 2 THEN Failed(st)
       ELSE Built(self, [st EXCEPT !.heap =
                [h2 EXCEPT ![self].children =
                               h[children[1]].children \o <<children[2]>>]])

keep_lean_name(lean_name) ==
    \/ lean_name \in untouched_bound_var_names
    \/ lean_name \in {"_inst_1", "_inst_2"}     \* startswith("_inst_")

name_bound_var(h, self, name) ==
    [h EXCEPT ![self].name = name, ![self].is_unnamed = FALSE]

set_unnamed_bound_var(h, self) ==
    LET old == IF h[self].name = None THEN "" ELSE h[self].name
        lean_name == IF old \in {NO_NAME, "*no_name*"} THEN "" ELSE old
    IN [h EXCEPT ![self].name = NO_NAME, ![self].lean_name = lean_name,
                 ![self].bound_var_nb = DefaultNb, ![self].is_unnamed = TRUE]

BoundVarInit(node, name, identifier, children, mt, parent, st) ==
    Once(MathObjectInit("BoundVar", node, name, identifier, children, mt,
                        st),
         LAMBDA r :
           LET self == r.obj
               h1 == [r.heap EXCEPT ![self].parent = parent,
                                    ![self].is_unnamed = TRUE]
               h2 == set_unnamed_bound_var(h1, self)
               h3 == IF keep_lean_name(h2[self].lean_name)
                     THEN name_bound_var(h2, self, h2[self].lean_name)
                     ELSE h2
           IN IF r.exc THEN r
              ELSE Built(self, [RegistryOf(r) EXCEPT !.heap = h3]))

from_math_type(mt, parent, st) ==
    BoundVarInit("LOCAL_CONSTANT", NO_NAME, 0, <<>>, mt,
                 IF parent = NoObject THEN NO_MATH_TYPE ELSE parent, st)

is_prop(h, o) == h[math_type(h, o)].node = "PROP"

\* is_variable(is_math_type=True)
is_variable(h, o) ==
    /\ h[o].node = "LOCAL_CONSTANT"
    /\ LET mtmt == math_type(h, o) IN
       ~ \/ is_prop(h, mtmt)
         \/ h[mtmt].node = "TYPE"
         \/ is_no_math_type(mtmt)

is_sequence(h, o) == h[math_type(h, o)].node = "SEQUENCE"

is_set_family(h, o) == h[math_type(h, o)].node = "SET_FAMILY"

\* MathObject.application followed by MathObject.lambda_ on a fresh bound
\* variable: the lambda that replaces the child
SequenceLambda(child, st) ==
    LET seq_type == math_type(st.heap, child) IN
    IF Len(st.heap[seq_type].children) < 2 THEN Failed(st)
    ELSE
    Once(from_math_type(st.heap[seq_type].children[1], NoObject, st),
         LAMBDA var :
    Once(MathObjectInit("MathObject", "APPLICATION", None, 0,
                        <<child, var.obj>>, st.heap[seq_type].children[2],
                        RegistryOf(var)),
         LAMBDA body :
    Once(MathObjectInit("MathObject", "LAMBDA", None, 0,
                        <<math_type(body.heap, var.obj), var.obj, body.obj>>,
                        seq_type, RegistryOf(body)),
         LAMBDA lam :
           Built(lam.obj,
                 [RegistryOf(lam) EXCEPT !.heap[var.obj].parent = lam.obj]))))

RECURSIVE ReplaceSequenceChildren(_, _, _)
ReplaceSequenceChildren(self, index, st) ==
    LET h == st.heap IN
    IF index > Len(h[self].children) THEN Built(self, st)
    ELSE LET child == h[self].children[index] IN
         IF /\ is_variable(h, child)
            /\ is_sequence(h, child) \/ is_set_family(h, child)
            /\ ~is_bound_var(h, child)
         THEN Once(SequenceLambda(child, st),
                   LAMBDA lam :
                     IF lam.exc THEN lam
                     ELSE ReplaceSequenceChildren(self, index + 1,
                              [RegistryOf(lam) EXCEPT
                                   !.heap[self].children[index] = lam.obj]))
         ELSE ReplaceSequenceChildren(self, index + 1, st)

\* a sequence or set family without children gets <<type, bound var, PROP>>
AddSequenceChildren(self, st) ==
    LET h == st.heap IN
    IF /\ is_variable(h, self) \/ is_bound_var(h, self)
       /\ is_sequence(h, self) \/ is_set_family(h, self)
       /\ Len(h[self].children) = 0
    THEN IF Len(h[math_type(h, self)].children) = 0 THEN Failed(st)
         ELSE Once(from_math_type(h[math_type(h, self)].children[1], self,
                                  st),
                   LAMBDA bv :
                     Built(self,
                           [RegistryOf(bv) EXCEPT !.heap[self].children =
                               <<h[math_type(h, self)].children[1], bv.obj,
                                 PROP>>]))
    ELSE Built(self, st)

process_sequences_and_likes(self, st) ==
    Once(AddSequenceChildren(self, st),
         LAMBDA first :
           IF first.exc THEN first
           ELSE IF first.heap[self].node \in {"APPLICATION", "LAMBDA"}
           THEN first
           ELSE ReplaceSequenceChildren(self, 1, RegistryOf(first)))

RECURSIVE Bubble(_, _, _)
Bubble(ns, name, counter) ==
    IF /\ counter > 1
       /\ IndexOf(NUMBER_SETS_LIST, name)
              < IndexOf(NUMBER_SETS_LIST, ns[counter - 1])
    THEN Bubble([ns EXCEPT ![counter] = ns[counter - 1],
                           ![counter - 1] = name], name, counter - 1)
    ELSE ns

\* add_numbers_set without the loop that moves the new name down
add_numbers_setNoSwap(ns, name) ==
    IF name \in Range(NUMBER_SETS_LIST) /\ name \notin Range(ns)
    THEN Append(ns, name)
    ELSE ns

add_numbers_set(ns, name) ==
    IF name \in Range(NUMBER_SETS_LIST) /\ name \notin Range(ns)
    THEN Bubble(Append(ns, name), name, Len(ns) + 1)
    ELSE ns

\* (1) constants are looked up by name
MakeConstant(info, children, st) ==
    IF info.name # None /\ info.name \in DOMAIN st.constants
    THEN Built(st.constants[info.name], st)
    ELSE Once(MathObjectInit("MathObject", info.node_name, info.name,
                             info.identifier, children, info.math_type, st),
              LAMBDA r :
                IF r.exc THEN r
                ELSE [r EXCEPT !.constants = Put(@, info.name, r.obj)])

\* (1.b) a new BoundVar or global variable, entered in Variables
NewVariable(info, children, st) ==
    Once(IF info.name # None /\ info.bound_var_suffix
         THEN BoundVarInit(info.node_name, info.name, info.identifier,
                           children, info.math_type, NoObject, st)
         ELSE MathObjectInit("MathObject", info.node_name, info.name,
                             info.identifier, children, info.math_type, st),
         LAMBDA r :
           IF r.exc THEN r
           ELSE [r EXCEPT !.Variables = Put(@, info.identifier, r.obj)])

\* (3) generic instantiation
NewObjectOf(info, children, st) ==
    MathObjectInit("MathObject", info.node_name, info.name, 0, children,
                   info.math_type, st)

\* (4) and (5): number sets, then sequences and set families; a failure
\* of (5) leaves what (1), (2) and (4) have written
Finish(math_object) ==
    Once(math_object,
         LAMBDA made :
           IF made.exc THEN made
           ELSE Once(process_sequences_and_likes(made.obj,
                         [RegistryOf(made) EXCEPT !.number_sets =
                             add_numbers_set(@, display_name(made.heap,
                                                             made.obj))]),
                     LAMBDA done :
                       IF done.exc THEN Failed(RegistryOf(done))
                       ELSE Built(made.obj, RegistryOf(done))))

\* from_info_and_children without "if identifier in MathObject.Variables"
from_info_and_childrenNoLookup(info, children, st) ==
    IF info.node_name = None THEN Failed(st)
    ELSE Finish(IF info.node_name = "CONSTANT"
                THEN MakeConstant(info, children, st)
                ELSE IF info.identifier # 0
                THEN NewVariable(info, children, st)
                ELSE NewObjectOf(info, children, st))

from_info_and_children(info, children, st) ==
    IF info.node_name = None THEN Failed(st)      \* info.pop("node_name")
    ELSE Finish(IF info.node_name = "CONSTANT"
                THEN MakeConstant(info, children, st)
                ELSE IF info.identifier # 0
                THEN IF info.identifier \in DOMAIN st.Variables
                     THEN Built(st.Variables[info.identifier], st)
                     ELSE NewVariable(info, children, st)
                ELSE NewObjectOf(info, children, st))

-----------------------------------------------------------------------------
(* The record streams of the term specification.  A record tree is         *)
(* [info, mt, children]: mt tells which math_type the parser attaches       *)
(* ("none", "PROP": the module object PROP, "TYPE": a freshly built TYPE    *)
(* node).  The front-end builds the children first, left to right.          *)

Tree(info, mt, children) == [info |-> info, mt |-> mt, children |-> children]

BoundVarLeaves ==
    { Tree(Info("LOCAL_CONSTANT", "x", TRUE, 1, NoObject), "none", <<>>),
      Tree(Info("LOCAL_CONSTANT", "_inst_1", TRUE, 2, NoObject), "none", <<>>) }

GlobalVarLeaves ==
    { Tree(Info("LOCAL_CONSTANT", "P", FALSE, 3, NoObject), "none", <<>>),
      Tree(Info("LOCAL_CONSTANT", "P", FALSE, 4, NoObject), "PROP", <<>>),
      Tree(Info("LOCAL_CONSTANT", "P", FALSE, 5, NoObject), "TYPE", <<>>) }

IdentShift == 5     \* the second stream's identifiers are the first's plus this

TypeLeaf == Tree(Info("TYPE", None, FALSE, 0, NoObject), "none", <<>>)

Leaves == BoundVarLeaves \cup GlobalVarLeaves

\* what a stream puts at children[1] of a quantifier: a bound variable, or
\* (a malformed record, here only on a quantifier over a leaf) a global
\* variable
MalformedSlotLeaf ==
    Tree(Info("LOCAL_CONSTANT", "P", FALSE, 3, NoObject), "none", <<>>)

QuantTree(var, body) ==
    Tree(Info("QUANT_FORALL", None, FALSE, 0, NoObject), "none",
         <<TypeLeaf, var, body>>)

RECURSIVE RecordTrees(_)
RecordTrees(d) ==
    IF d = 0 THEN Leaves
    ELSE LET smaller == RecordTrees(d - 1) IN
         smaller
           \cup {QuantTree(v, b) : v \in BoundVarLeaves, b \in smaller}
           \cup {QuantTree(MalformedSlotLeaf, b) : b \in Leaves}

RECURSIVE BuildTree(_, _, _)
RECURSIVE BuildChildren(_, _, _, _, _)

BuildChildren(trees, i, shift, objs, st) ==
    IF i > Len(trees) THEN [Built(NoObject, st) EXCEPT !.obj = objs]
    ELSE Once(BuildTree(trees[i], shift, st),
              LAMBDA r :
                IF r.exc THEN r
                ELSE BuildChildren(trees, i + 1, shift, Append(objs, r.obj),
                                   RegistryOf(r)))

BuildTree(t, shift, st) ==
    Once(BuildChildren(t.children, 1, shift, <<>>, st),
         LAMBDA kids :
           IF kids.exc THEN kids
           ELSE Once(IF t.mt = "TYPE"
                     THEN from_info_and_children(TypeLeaf.info, <<>>,
                                                 RegistryOf(kids))
                     ELSE Built(IF t.mt = "PROP" THEN PROP ELSE NoObject,
                                RegistryOf(kids)),
                     LAMBDA typed :
                       from_info_and_children(
                           [t.info EXCEPT
                               !.identifier = IF @ = 0 THEN 0 ELSE @ + shift,
                               !.math_type = typed.obj],
                           kids.obj, RegistryOf(typed))))

-----------------------------------------------------------------------------
(* The term specifications: two record streams are parsed, then equality   *)
(* and containment are called on the terms.  SpecTerms makes one call on    *)
(* the freshly parsed terms; SpecCalls makes up to MaxCalls calls, one      *)
(* after the other, on the same terms.                                      *)

EmptyRegistry ==
    [heap |-> ModuleObjects, Variables |-> <<>>, constants |-> <<>>,
     number_sets |-> <<>>]

NoCall == [op |-> "none"]

InitTerms ==
    \E ta \in RecordTrees(MaxDepth) :
      \E first \in {BuildTree(ta, 0, EmptyRegistry)} :
        \E tb \in RecordTrees(MaxDepth) :
          \E second \in {BuildTree(tb, IdentShift, RegistryOf(first))} :
            /\ heap = second.heap
            /\ Variables = second.Variables
            /\ constants = second.constants
            /\ number_sets = second.number_sets
            /\ roots = <<first.obj, second.obj>>
            /\ bound_var_counter = 0
            /\ last_used_implicit_definition = NoObject
            /\ last_rw_object = NoObject
            /\ generation = 0
            /\ calls = 0
            /\ stale = 0
            /\ definition_patterns = <<>>
            /\ implicit_definitions = <<>>
            /\ cvars = <<>>
            /\ local_context = <<>>
            /\ threads = <<>>
            /\ goals = <<>>
            /\ ret = NoCall

Operands ==
    { <<roots[1], roots[2]>>, <<roots[1], roots[1]>>,
      <<roots[1], NO_MATH_TYPE>>, <<NO_MATH_TYPE, roots[1]>>,
      <<NO_MATH_TYPE, NO_MATH_TYPE>> }

CallState == [heap |-> heap, cnt |-> bound_var_counter, log |-> {}]

\* a == b
Equals(a, b) ==
    /\ \E r \in {PyEq(a, b, CallState)} :
       /\ heap' = r.heap
       /\ bound_var_counter' = r.cnt
       /\ ret' = [op |-> "eq", a |-> a, b |-> b, res |-> r.res,
                  exc |-> r.exc, log |-> r.log]
    /\ calls' = calls + 1
    /\ UNCHANGED <<Variables, constants, number_sets,
                   last_used_implicit_definition, last_rw_object, roots,
                   generation,
                   stale,
                   definition_patterns,
                   implicit_definitions,
                   cvars,
                   local_context,
                   threads,
                   goals>>

\* a.contains(b)
Contains(a, b) ==
    /\ \E r \in {contains(a, b, CallState)} :
       /\ heap' = r.heap
       /\ bound_var_counter' = r.cnt
       /\ ret' = [op |-> "contains", a |-> a, b |-> b, val |-> r.val,
                  exc |-> r.exc, log |-> r.log]
    /\ calls' = calls + 1
    /\ UNCHANGED <<Variables, constants, number_sets,
                   last_used_implicit_definition, last_rw_object, roots,
                   generation,
                   stale,
                   definition_patterns,
                   implicit_definitions,
                   cvars,
                   local_context,
                   threads,
                   goals>>

NextTerms ==
    \/ calls = 0 /\ \E p \in Operands : Equals(p[1], p[2])
    \/ calls = 0 /\ \E p \in Operands : Contains(p[1], p[2])

SpecTerms == InitTerms /\ [][NextTerms]_vars

NextCalls ==
    \/ calls < MaxCalls /\ \E p \in Operands : Equals(p[1], p[2])
    \/ calls < MaxCalls /\ \E p \in Operands : Contains(p[1], p[2])

SpecCalls == InitTerms /\ [][NextCalls]_vars

-----------------------------------------------------------------------------
(* The registry specification: the records of a session arrive one at a    *)
(* time, their children being terms built before; number sets are added;   *)
(* clear() ends a session generation.  Only LOCAL_CONSTANT records carry an *)
(* identifier, and a record may repeat an identifier under another name.    *)

Registry ==
    [heap |-> heap, Variables |-> Variables, constants |-> constants,
     number_sets |-> number_sets]

ObjectsOf(h, nodes) == {o \in 3..Len(h) : h[o].node \in nodes}

Plain(node) == Info(node, None, FALSE, 0, NoObject)

\* one TYPE record and one SEQUENCE record of each shape are sent as long
\* as the heap holds no such term
InputRecords(h) ==
    { <<Plain(None), <<>>>>,
      <<Plain("APPLICATION"), <<>>>>,
      <<Info("CONSTANT", "N", FALSE, 0, NoObject), <<>>>>,
      <<Info("LOCAL_CONSTANT", "x", TRUE, 1, NoObject), <<>>>>,
      <<Info("LOCAL_CONSTANT", "y", FALSE, 1, NoObject), <<>>>> }
    \cup { <<Plain("TYPE"), c>> :
               c \in {<<>>} \ {h[o].children : o \in ObjectsOf(h, {"TYPE"})} }
    \cup { <<Plain("SEQUENCE"), c>> :
               c \in ({<<>>} \cup {<<t, t>> : t \in ObjectsOf(h, {"TYPE"})})
                      \ {h[o].children : o \in ObjectsOf(h, {"SEQUENCE"})} }
    \cup { <<Info("LOCAL_CONSTANT", "u", FALSE, 2, mt), <<>>>> :
               mt \in ObjectsOf(h, {"SEQUENCE"}) }
    \cup { <<Plain("QUANT_FORALL"), <<t, v, v>>>> :
               t \in ObjectsOf(h, {"TYPE"}),
               v \in ObjectsOf(h, {"LOCAL_CONSTANT"}) }

NumberSetNames == {"R", "N", "c"}

Init ==
    /\ heap = ModuleObjects
    /\ Variables = <<>>
    /\ constants = <<>>
    /\ number_sets = <<>>
    /\ bound_var_counter = 0
    /\ last_used_implicit_definition = NoObject
    /\ last_rw_object = NoObject
    /\ roots = <<>>
    /\ generation = 0
    /\ calls = 0
    /\ stale = 0
    /\ definition_patterns = <<>>
    /\ implicit_definitions = <<>>
    /\ cvars = <<>>
    /\ local_context = <<>>
    /\ threads = <<>>
    /\ goals = <<>>
    /\ ret = NoCall

\* MathObject.from_info_and_children(info, children)
FromInfoAndChildren(info, children) ==
    /\ Len(heap) < MaxObjects
    /\ \E r \in {from_info_and_children(info, children, Registry)} :
       /\ heap' = r.heap
       /\ Variables' = r.Variables
       /\ constants' = r.constants
       /\ number_sets' = r.number_sets
       /\ ret' = [op |-> "from_info_and_children", info |-> info,
                  children |-> children, obj |-> r.obj, exc |-> r.exc]
    /\ UNCHANGED <<bound_var_counter, last_used_implicit_definition,
                   last_rw_object, roots, generation, calls,
                   stale,
                   definition_patterns,
                   implicit_definitions,
                   cvars,
                   local_context,
                   threads,
                   goals>>

\* MathObject.add_numbers_set(name)
AddNumbersSet(name) ==
    /\ number_sets' = add_numbers_set(number_sets, name)
    /\ ret' = [op |-> "add_numbers_set", name |-> name]
    /\ UNCHANGED <<heap, Variables, constants, bound_var_counter,
                   last_used_implicit_definition, last_rw_object, roots,
                   generation, calls,
                   stale,
                   definition_patterns,
                   implicit_definitions,
                   cvars,
                   local_context,
                   threads,
                   goals>>

\* MathObject.clear()
Clear ==
    /\ generation < MaxClears
    /\ Variables' = <<>>
    /\ number_sets' = <<>>
    /\ bound_var_counter' = 0
    /\ generation' = generation + 1
    /\ ret' = [op |-> "clear"]
    /\ stale' = Len(heap)
    /\ UNCHANGED <<heap, constants, last_used_implicit_definition,
                   last_rw_object, roots, calls,
                   definition_patterns,
                   implicit_definitions,
                   cvars,
                   local_context,
                   threads,
                   goals>>

Next ==
    \/ \E rec \in InputRecords(heap) : FromInfoAndChildren(rec[1], rec[2])
    \/ \E name \in NumberSetNames : AddNumbersSet(name)
    \/ Clear

Spec == Init /\ [][Next]_vars

-----------------------------------------------------------------------------
(* The number-set specification: the calls that observe names, with every  *)
(* name of NUMBER_SETS_LIST and one name outside it.  A name is observed by *)
(* add_numbers_set, by a record that is built, by a record whose term is    *)
(* cached, and by a record whose construction fails after step (4).         *)

AllNumberSetNames == Range(NUMBER_SETS_LIST) \cup {"c"}

NamedRecords(h) ==
    { <<Info("CONSTANT", "Z", FALSE, 0, NoObject), <<>>>>,
      <<Info("CONSTANT", "c", FALSE, 0, NoObject), <<>>>>,
      <<Info("LOCAL_CONSTANT", "Q", FALSE, 1, NoObject), <<>>>> }
    \cup { <<Plain("SEQUENCE"), c>> :
               c \in {<<>>} \ {h[o].children : o \in ObjectsOf(h, {"SEQUENCE"})} }
    \cup { <<Info("LOCAL_CONSTANT", "R", FALSE, 2, mt), <<>>>> :
               mt \in ObjectsOf(h, {"SEQUENCE"}) }

NextNumbers ==
    \/ \E name \in AllNumberSetNames : AddNumbersSet(name)
    \/ \E rec \in NamedRecords(heap) : FromInfoAndChildren(rec[1], rec[2])
    \/ Clear

SpecNumbers == Init /\ [][NextNumbers]_vars

-----------------------------------------------------------------------------
(* The application specification: a head f and arguments x1..xn are taken  *)
(* among terms built beforehand; the applications App(f, x1),               *)
(* App(App(f, x1), x2), ... are constructed one after the other, then the   *)
(* application with the n + 1 children f, x1, ..., xn.                      *)

\* the terms at hand: a global variable, a bound variable, a TYPE, and an
\* application of the first to the second
ApplyLeaves ==
    << <<Info("LOCAL_CONSTANT", "f", FALSE, 1, NoObject), <<>>>>,
       <<Info("LOCAL_CONSTANT", "x", TRUE, 2, NoObject), <<>>>>,
       <<Plain("TYPE"), <<>>>>,
       <<Plain("APPLICATION"), <<3, 4>>>> >>

RECURSIVE BuildRecords(_, _, _)
BuildRecords(records, i, st) ==
    IF i > Len(records) THEN Built(NoObject, st)
    ELSE Once(from_info_and_children(records[i][1], records[i][2], st),
              LAMBDA r : BuildRecords(records, i + 1, RegistryOf(r)))

InitApply ==
    \E built \in {BuildRecords(ApplyLeaves, 1, EmptyRegistry)} :
        /\ heap = built.heap
        /\ Variables = built.Variables
        /\ constants = built.constants
        /\ number_sets = built.number_sets
        /\ roots = <<>>
        /\ bound_var_counter = 0
        /\ last_used_implicit_definition = NoObject
        /\ last_rw_object = NoObject
        /\ generation = 0
        /\ calls = 0
        /\ stale = 0
        /\ definition_patterns = <<>>
        /\ implicit_definitions = <<>>
        /\ cvars = <<>>
        /\ local_context = <<>>
        /\ threads = <<>>
        /\ goals = <<>>
        /\ ret = NoCall

Heads == {o \in 3..Len(heap) : heap[o].node # "APPLICATION"}

ArgumentLists ==
    UNION {[1..n -> 3..Len(heap)] : n \in 1..MaxArgs}

\* the applications of g to args[i], args[i + 1], ..., one at a time;
\* obj is the sequence of the applications built
RECURSIVE ApplyOneAtATime(_, _, _, _, _)
ApplyOneAtATime(g, args, i, chain, st) ==
    IF i > Len(args) THEN [Built(NoObject, st) EXCEPT !.obj = chain]
    ELSE Once(from_info_and_children(Plain("APPLICATION"), <<g, args[i]>>,
                                     st),
              LAMBDA r :
                IF r.exc THEN r
                ELSE ApplyOneAtATime(r.obj, args, i + 1,
                                     Append(chain, r.obj), RegistryOf(r)))

ApplyChain(f, args) ==
    /\ calls = 0
    /\ \E chain \in {ApplyOneAtATime(f, args, 1, <<>>, Registry)} :
       \E direct \in {from_info_and_children(Plain("APPLICATION"),
                                              <<f>> \o args,
                                              RegistryOf(chain))} :
         /\ heap' = direct.heap
         /\ Variables' = direct.Variables
         /\ constants' = direct.constants
         /\ number_sets' = direct.number_sets
         /\ ret' = [op |-> "apply_chain", f |-> f, args |-> args,
                    chain |-> chain.obj, direct |-> direct.obj,
                    exc |-> chain.exc \/ direct.exc]
    /\ calls' = calls + 1
    /\ UNCHANGED <<bound_var_counter, last_used_implicit_definition,
                   last_rw_object, roots, generation, stale,
                   definition_patterns,
                   implicit_definitions,
                   cvars,
                   local_context,
                   threads,
                   goals>>

NextApply == \E f \in Heads : \E args \in ArgumentLists : ApplyChain(f, args)

SpecApply == InitApply /\ [][NextApply]_vars

-----------------------------------------------------------------------------
(* The matcher.  A pattern is a term whose METAVAR nodes stand for the      *)
(* parameters of a definition; MathObject.definition_patterns[k] is a node   *)
(* with the two children (left, right) and MathObject.implicit_definitions[k] *)
(* is its definition statement, written as its positive number.  match and   *)
(* apply_matching of the pattern class follow section 4.4 of the             *)
(* specification; the bindings that match leaves for apply_matching are      *)
(* bind, a function from the metavariables bound to the terms bound to them. *)
(* match yields [res, exc, bind, heap, cnt, log].                            *)

Matched(res, bind, st) ==
    [res |-> res, exc |-> FALSE, bind |-> bind, heap |-> st.heap,
     cnt |-> st.cnt, log |-> st.log]

is_metavar(h, o) == h[o].node = "METAVAR"

\* BoundVar.recursive_match
BoundVarRecursiveMatch(self, other, h) ==
    /\ is_bound_var(h, other)
    /\ bound_var_nb(h, self) = bound_var_nb(h, other)

RECURSIVE recursive_match(_, _, _, _)
RECURSIVE MatchChildren(_, _, _, _, _)

\* the children are matched pairwise, up to the first pair that fails
MatchChildren(self, other, i, bind, st) ==
    IF i > Len(st.heap[self].children) THEN Matched(TRUE, bind, st)
    ELSE Once(recursive_match(st.heap[self].children[i],
                              st.heap[other].children[i], bind, st),
              LAMBDA r :
                IF r.exc \/ ~r.res THEN r
                ELSE MatchChildren(self, other, i + 1, r.bind, StateOf(r)))

\* a binder of the pattern against a binder of the term: the two bound
\* variables carry the same fresh tag while the children are matched
MatchBinders(self, other, bind, st) ==
    LET bound_var_1 == st.heap[self].children[2]
        bound_var_2 == st.heap[other].children[2]
    IN Once(MatchChildren(self, other, 1, bind,
                          mark_identical_bound_vars(bound_var_1, bound_var_2,
                                                    st)),
            LAMBDA r :
              [r EXCEPT !.heap =
                  unmark_bound_var(bound_var_2,
                      unmark_bound_var(bound_var_1, StateOf(r))).heap])

recursive_match(self, other, bind, st) ==
    LET h == st.heap IN
    IF is_metavar(h, self)
    THEN IF self \in DOMAIN bind
         THEN Once(PyEq(bind[self], other, st),
                   LAMBDA r : [Matched(r.res, bind, StateOf(r))
                                  EXCEPT !.exc = r.exc])
         ELSE Matched(TRUE, Put(bind, self, other), st)
    ELSE IF is_bound_var(h, self)
    THEN Matched(BoundVarRecursiveMatch(self, other, h), bind, st)
    ELSE IF \/ h[self].node # h[other].node
            \/ h[self].name # h[other].name
            \/ Len(h[self].children) # Len(h[other].children)
    THEN Matched(FALSE, bind, st)
    ELSE IF has_bound_var(h, self) /\ has_bound_var(h, other)
    THEN MatchBinders(self, other, bind, st)
    ELSE MatchChildren(self, other, 1, bind, st)

\* pattern.match(term): the matching starts from no binding
match(pattern, term, st) == recursive_match(pattern, term, <<>>, st)

\* copy(self) of BoundVar.apply_matching: a new object with the same fields
BoundVarApplyMatching(self, st) ==
    Built(Len(st.heap) + 1,
          [st EXCEPT !.heap = Append(st.heap, st.heap[self])])

RECURSIVE apply_matching(_, _, _)
RECURSIVE ApplyChildren(_, _, _, _, _)

ApplyChildren(self, bind, i, objs, st) ==
    IF i > Len(st.heap[self].children)
    THEN [Built(NoObject, st) EXCEPT !.obj = objs]
    ELSE Once(apply_matching(st.heap[self].children[i], bind, st),
              LAMBDA r :
                IF r.exc THEN r
                ELSE ApplyChildren(self, bind, i + 1, Append(objs, r.obj),
                                   RegistryOf(r)))

\* pattern_right.apply_matching(): a metavariable is replaced by the term
\* bound to it, a bound variable by a copy, any other node is built anew
apply_matching(self, bind, st) ==
    LET h == st.heap IN
    IF is_metavar(h, self)
    THEN Built(IF self \in DOMAIN bind THEN bind[self] ELSE self, st)
    ELSE IF is_bound_var(h, self) THEN BoundVarApplyMatching(self, st)
    ELSE Once(ApplyChildren(self, bind, 1, <<>>, st),
              LAMBDA r :
                IF r.exc THEN r
                ELSE MathObjectInit("MathObject", h[self].node, h[self].name,
                                    h[self].identifier, r.obj,
                                    h[self].math_type, RegistryOf(r)))

-----------------------------------------------------------------------------
(* The predicates wrapped by allow_implicit_use.  PROP_EXISTS stands for    *)
(* the node PROP_∃.  A wrapped call works on ms = [heap, cnt, definition,   *)
(* rw]: the heap, MathObject.bound_var_counter and the two last-match       *)
(* slots; it yields [res, exc, tried] together with the state it leaves,    *)
(* tried being the indices of the patterns given to match, in order.        *)

ALLOW_IMPLICIT == "functionality.allow_implicit_use_of_definitions"
DO_NOT_NAME ==
    "logic.do_not_name_dummy_vars_as_dummy_vars_in_one_prop"

\* cvars.get(name, default)
cvars_get(name, default) ==
    IF name \in DOMAIN cvars THEN cvars[name] ELSE default

\* "if is_math_type: math_type = self / else: math_type = self.math_type"
TestedType(h, self, is_math_type) ==
    IF is_math_type THEN self ELSE math_type(h, self)

is_and(h, self, is_math_type) ==
    h[TestedType(h, self, is_math_type)].node \in {"PROP_AND", "PROP_EXISTS"}

is_or(h, self, is_math_type) ==
    h[TestedType(h, self, is_math_type)].node = "PROP_OR"

is_implication(h, self, is_math_type) ==
    h[TestedType(h, self, is_math_type)].node = "PROP_IMPLIES"

is_exists(h, self, is_math_type) ==
    h[TestedType(h, self, is_math_type)].node
        \in {"QUANT_EXISTS", "QUANT_EXISTS_UNIQUE"}

\* is_for_all answering True on an existence property as well
is_for_allOrExists(h, self, is_math_type) ==
    h[TestedType(h, self, is_math_type)].node
        \in {"QUANT_FORALL", "QUANT_EXISTS"}

is_for_all(h, self, is_math_type) ==
    h[TestedType(h, self, is_math_type)].node = "QUANT_FORALL"

WrappedTests ==
    {"is_and", "is_or", "is_implication", "is_exists", "is_for_all"}

\* test(math_object, is_math_type) for the undecorated function test
Test(test, h, self, is_math_type) ==
    CASE test = "is_and" -> is_and(h, self, is_math_type)
      [] test = "is_or" -> is_or(h, self, is_math_type)
      [] test = "is_implication" -> is_implication(h, self, is_math_type)
      [] test = "is_exists" -> is_exists(h, self, is_math_type)
      [] test = "is_for_all" -> is_for_all(h, self, is_math_type)

MatcherState ==
    [heap |-> heap, cnt |-> bound_var_counter,
     definition |-> last_used_implicit_definition, rw |-> last_rw_object]

Tested(res, tried, ms) ==
    [res |-> res, exc |-> FALSE, tried |-> tried, heap |-> ms.heap,
     cnt |-> ms.cnt, definition |-> ms.definition, rw |-> ms.rw]

TestRaised(tried, ms) ==
    [res |-> FALSE, exc |-> TRUE, tried |-> tried, heap |-> ms.heap,
     cnt |-> ms.cnt, definition |-> ms.definition, rw |-> ms.rw]

MatcherStateOf(r) ==
    [heap |-> r.heap, cnt |-> r.cnt, definition |-> r.definition,
     rw |-> r.rw]

pattern_left(h, pattern) == h[pattern].children[1]
pattern_right(h, pattern) == h[pattern].children[2]

\* the loop "for index in range(len(definition_patterns))" of test_implicit
RECURSIVE TryDefinitions(_, _, _, _, _)
TryDefinitions(test, tested, index, tried, ms) ==
    IF index > Len(definition_patterns) THEN Tested(FALSE, tried, ms)
    \* the log message reads implicit_definitions[index]: IndexError
    ELSE IF index > Len(implicit_definitions) THEN TestRaised(tried, ms)
    ELSE Once(match(pattern_left(ms.heap, definition_patterns[index]),
                    tested, [heap |-> ms.heap, cnt |-> ms.cnt, log |-> {}]),
              LAMBDA m :
                LET right == pattern_right(ms.heap,
                                           definition_patterns[index])
                    after == [ms EXCEPT !.heap = m.heap, !.cnt = m.cnt]
                IN IF m.exc THEN TestRaised(Append(tried, index), after)
                   ELSE IF m.res /\ Test(test, m.heap, right, TRUE)
                   THEN Once(apply_matching(right, m.bind,
                                 [Registry EXCEPT !.heap = m.heap]),
                             LAMBDA a :
                               IF a.exc
                               THEN TestRaised(Append(tried, index), after)
                               ELSE Tested(TRUE, Append(tried, index),
                                      [heap |-> a.heap, cnt |-> m.cnt,
                                       definition |->
                                           implicit_definitions[index],
                                       rw |-> a.obj]))
                   ELSE TryDefinitions(test, tested, index + 1,
                                       Append(tried, index), after))

\* test_implicit that keeps the slots of the previous attempt
test_implicitNoReset(test, math_object, is_math_type, implicit, ms) ==
    IF ~(implicit /\ cvars_get(ALLOW_IMPLICIT, FALSE))
    THEN Tested(Test(test, ms.heap, math_object, is_math_type), <<>>, ms)
    ELSE IF Test(test, ms.heap, math_object, is_math_type)
    THEN Tested(TRUE, <<>>, ms)
    ELSE TryDefinitions(test, TestedType(ms.heap, math_object, is_math_type),
                        1, <<>>, ms)

\* test_implicit that does not read the configuration
test_implicitNoOption(test, math_object, is_math_type, implicit, ms) ==
    IF ~implicit
    THEN Tested(Test(test, ms.heap, math_object, is_math_type), <<>>, ms)
    ELSE IF Test(test, ms.heap, math_object, is_math_type)
    THEN Tested(TRUE, <<>>, ms)
    ELSE TryDefinitions(test, TestedType(ms.heap, math_object, is_math_type),
                        1, <<>>,
                        [ms EXCEPT !.definition = NoObject, !.rw = NoObject])

\* the function that allow_implicit_use(test) returns; an option that is
\* not set reads None
test_implicit(test, math_object, is_math_type, implicit, ms) ==
    IF ~(implicit /\ cvars_get(ALLOW_IMPLICIT, FALSE))
    THEN Tested(Test(test, ms.heap, math_object, is_math_type), <<>>, ms)
    ELSE IF Test(test, ms.heap, math_object, is_math_type)
    THEN Tested(TRUE, <<>>, ms)
    ELSE TryDefinitions(test, TestedType(ms.heap, math_object, is_math_type),
                        1, <<>>,
                        [ms EXCEPT !.definition = NoObject, !.rw = NoObject])

\* MathObject.implicit(test): it yields [obj, exc] and the state it leaves,
\* obj being NoObject for None
implicit(self, test, ms) ==
    Once(test_implicit(test, self, TRUE, TRUE, ms),
         LAMBDA first :
           IF first.exc \/ ~first.res
           THEN [first EXCEPT !.res = NoObject]
           ELSE Once(test_implicit(test, self, TRUE, FALSE,
                                   MatcherStateOf(first)),
                     LAMBDA second :
                       [second EXCEPT !.tried = first.tried \o second.tried,
                                      !.res = IF second.exc THEN NoObject
                                              ELSE IF second.res THEN self
                                              ELSE second.rw]))

\* MathObject.is_quantifier(is_math_type): the two wrapped predicates are
\* called without the flag implicit; "or" calls the second when the first
\* is False
is_quantifier(self, is_math_type, ms) ==
    LET mt == TestedType(ms.heap, self, is_math_type) IN
    Once(test_implicit("is_exists", mt, TRUE, FALSE, ms),
         LAMBDA first :
           IF first.exc \/ first.res THEN first
           ELSE test_implicit("is_for_all", mt, TRUE, FALSE,
                              MatcherStateOf(first)))

-----------------------------------------------------------------------------
(* Unfolding.  The calls work on ms as the wrapped predicates do and yield  *)
(* [obj, exc] together with the state they leave.                           *)

Unfolded(obj, ms) ==
    [obj |-> obj, exc |-> FALSE, heap |-> ms.heap, cnt |-> ms.cnt,
     definition |-> ms.definition, rw |-> ms.rw]

UnfoldRaised(ms) ==
    [obj |-> NoObject, exc |-> TRUE, heap |-> ms.heap, cnt |-> ms.cnt,
     definition |-> ms.definition, rw |-> ms.rw]

\* the loop of unfold_implicit_definition; obj is the list rw_math_objects
RECURSIVE UnfoldDefinitions(_, _, _, _)
UnfoldDefinitions(self, index, rw_math_objects, ms) ==
    IF index > Len(definition_patterns) THEN Unfolded(rw_math_objects, ms)
    ELSE Once(match(pattern_left(ms.heap, definition_patterns[index]), self,
                    [heap |-> ms.heap, cnt |-> ms.cnt, log |-> {}]),
              LAMBDA m :
                LET after == [ms EXCEPT !.heap = m.heap, !.cnt = m.cnt] IN
                IF m.exc THEN UnfoldRaised(after)
                ELSE IF ~m.res
                THEN UnfoldDefinitions(self, index + 1, rw_math_objects,
                                       after)
                ELSE IF index > Len(implicit_definitions)
                THEN UnfoldRaised(after)
                ELSE Once(apply_matching(
                              pattern_right(ms.heap,
                                            definition_patterns[index]),
                              m.bind, [Registry EXCEPT !.heap = m.heap]),
                          LAMBDA a :
                            IF a.exc THEN UnfoldRaised(after)
                            ELSE UnfoldDefinitions(self, index + 1,
                                   Append(rw_math_objects, a.obj),
                                   [after EXCEPT
                                      !.heap = a.heap,
                                      !.definition =
                                          implicit_definitions[index]])))

\* unfold_implicit_definition that stops at the first definition that matches
unfold_implicit_definitionFirstOnly(self, ms) ==
    Once(UnfoldDefinitions(self, 1, <<>>, ms),
         LAMBDA r : IF r.exc \/ r.obj = <<>> THEN r
                    ELSE [r EXCEPT !.obj = <<r.obj[1]>>])

unfold_implicit_definition(self, ms) == UnfoldDefinitions(self, 1, <<>>, ms)

\* the rebuilding with the children in reverse order
NewWithInfoOfReversed(math_object, children, ms) ==
    LET h == ms.heap IN
    Once(MathObjectInit("MathObject", h[math_object].node,
                        h[math_object].name, h[math_object].identifier,
                        [i \in 1..Len(children) |->
                             children[Len(children) + 1 - i]],
                        math_type(h, math_object),
                        [Registry EXCEPT !.heap = h]),
         LAMBDA r :
           IF r.exc THEN UnfoldRaised(ms) ELSE Unfolded(r.obj,
                  [ms EXCEPT !.heap = r.heap]))

\* MathObject(node=math_object.node, info=math_object.info, children=...,
\* math_type=math_object.math_type): the fields kept in info are those of
\* math_object
NewWithInfoOf(math_object, children, ms) ==
    LET h == ms.heap IN
    Once(MathObjectInit("MathObject", h[math_object].node,
                        h[math_object].name, h[math_object].identifier,
                        children, math_type(h, math_object),
                        [Registry EXCEPT !.heap = h]),
         LAMBDA r :
           IF r.exc THEN UnfoldRaised(ms)
           ELSE Unfolded(r.obj,
                  [ms EXCEPT !.heap =
                      [r.heap EXCEPT
                         ![r.obj].value = h[math_object].value,
                         ![r.obj].bound_var_nb = h[math_object].bound_var_nb,
                         ![r.obj].lean_name = h[math_object].lean_name]]))

RECURSIVE unfold_implicit_definition_recursively(_, _)
RECURSIVE UnfoldChildren(_, _, _, _)

\* "for child in math_object.children"; obj is the list rw_children
UnfoldChildren(math_object, i, rw_children, ms) ==
    IF i > Len(ms.heap[math_object].children) THEN Unfolded(rw_children, ms)
    ELSE Once(unfold_implicit_definition_recursively(
                  ms.heap[math_object].children[i], ms),
              LAMBDA r :
                IF r.exc THEN r
                ELSE UnfoldChildren(math_object, i + 1,
                                    Append(rw_children, r.obj),
                                    MatcherStateOf(r)))

unfold_implicit_definition_recursively(self, ms) ==
    Once(unfold_implicit_definition(self, ms),
         LAMBDA top :
           IF top.exc THEN top
           ELSE LET math_object == IF top.obj # <<>> THEN top.obj[1]
                                   ELSE self
                IN Once(UnfoldChildren(math_object, 1, <<>>,
                                       MatcherStateOf(top)),
                        LAMBDA below :
                          IF below.exc THEN below
                          ELSE NewWithInfoOf(math_object, below.obj,
                                             MatcherStateOf(below))))

-----------------------------------------------------------------------------
(* The matcher specification: a course has set the definition patterns, a   *)
(* proof state has been parsed, and the wrapped predicates, implicit and    *)
(* the unfoldings are called on its terms.  The terms                      *)
(* are A, B : sets, A included in B, A included in A, a hypothesis H of     *)
(* type "A included in B", their conjunction, disjunction, implication and  *)
(* quantified statements; ?1 and ?2 are the metavariables.                  *)

Var(name, identifier) == Info("LOCAL_CONSTANT", name, FALSE, identifier,
                              NoObject)
BVar(name, identifier) == Info("LOCAL_CONSTANT", name, TRUE, identifier,
                               NoObject)
Prop(node) == Info(node, None, FALSE, 0, PROP)

MatcherRecords ==
    << <<Var("A", 1), <<>>>>,                               \*  3  A
       <<Var("B", 2), <<>>>>,                               \*  4  B
       <<Plain("TYPE"), <<>>>>,                             \*  5
       <<BVar("x", 3), <<>>>>,                              \*  6  x
       <<BVar("w", 4), <<>>>>,                              \*  7  w
       <<Prop("PROP_INCLUDED"), <<3, 4>>>>,                 \*  8  A c B
       <<Prop("PROP_INCLUDED"), <<3, 3>>>>,                 \*  9  A c A
       <<Info("LOCAL_CONSTANT", "H", FALSE, 5, 8), <<>>>>,  \* 10  H : A c B
       <<Prop("PROP_AND"), <<8, 9>>>>,                      \* 11
       <<Prop("PROP_BELONGS"), <<6, 3>>>>,                  \* 12  x in A
       <<Prop("QUANT_EXISTS"), <<5, 6, 12>>>>,              \* 13  E x, x in A
       <<Prop("PROP_OR"), <<8, 9>>>>,                       \* 14
       <<Prop("PROP_IMPLIES"), <<8, 9>>>>,                  \* 15
       <<Prop("PROP_BELONGS"), <<7, 3>>>>,                  \* 16  w in A
       <<Prop("QUANT_FORALL"), <<5, 7, 16>>>>,              \* 17  A w, w in A
       <<BVar("y", 6), <<>>>>,                              \* 18  y
       <<Prop("QUANT_EXISTS"), <<5, 18, 16>>>>,             \* 19  E y, w in A
       <<Info("METAVAR", "?1", FALSE, 0, NoObject), <<>>>>, \* 20  ?1
       <<Info("METAVAR", "?2", FALSE, 0, NoObject), <<>>>>, \* 21  ?2
       <<Prop("PROP_INCLUDED"), <<20, 21>>>>,               \* 22  ?1 c ?2
       <<BVar("z", 7), <<>>>>,                              \* 23
       <<Prop("PROP_IMPLIES"), <<20, 21>>>>,                \* 24
       <<Prop("QUANT_FORALL"), <<5, 23, 24>>>>,             \* 25
       <<Prop("PROP_IFF"), <<22, 25>>>>,                    \* 26  pattern 1
       <<Prop("PROP_INCLUDED"), <<20, 20>>>>,               \* 27  ?1 c ?1
       <<Prop("PROP_OR"), <<20, 20>>>>,                     \* 28
       <<Prop("PROP_IFF"), <<27, 28>>>>,                    \* 29  pattern 2
       <<BVar("z", 8), <<>>>>,                              \* 30
       <<Prop("PROP_OR"), <<21, 20>>>>,                     \* 31
       <<Prop("QUANT_FORALL"), <<5, 30, 31>>>>,             \* 32
       <<Prop("PROP_IFF"), <<22, 32>>>>,                    \* 33  pattern 3
       <<BVar("z", 9), <<>>>>,                              \* 34
       <<Prop("PROP_BELONGS"), <<34, 20>>>>,                \* 35  z in ?1
       <<Prop("QUANT_EXISTS"), <<5, 34, 35>>>>,             \* 36
       <<Plain("SET_EMPTY"), <<>>>>,                        \* 37
       <<Prop("PROP_EQUAL_NOT"), <<20, 37>>>>,              \* 38
       <<Prop("PROP_IFF"), <<36, 38>>>> >>                  \* 39  pattern 4

\* the pattern of each definition statement
PatternOf == <<26, 29, 33, 39>>

\* the implicit definitions of a course, in its order
DefinitionOrders == {<<>>, <<1, 2, 3, 4>>, <<2, 1, 3, 4>>, <<3, 4, 2, 1>>}

\* the option is not set, or set to True, or set to False
OptionValues ==
    {<<>>} \cup {[k \in {ALLOW_IMPLICIT} |-> b] : b \in BOOLEAN}

Targets == {8, 9, 10, 11, 13, 14, 15, 17, 19}

InitMatcher ==
    \E built \in {BuildRecords(MatcherRecords, 1, EmptyRegistry)} :
    \E order \in DefinitionOrders :
        /\ heap = built.heap
        /\ Variables = built.Variables
        /\ constants = built.constants
        /\ number_sets = built.number_sets
        /\ roots = <<>>
        /\ bound_var_counter = 0
        /\ last_used_implicit_definition = NoObject
        /\ last_rw_object = NoObject
        /\ generation = 0
        /\ calls = 0
        /\ stale = 0
        /\ definition_patterns = [i \in 1..Len(order) |-> PatternOf[order[i]]]
        /\ implicit_definitions = order
        /\ cvars \in OptionValues
        /\ local_context = <<>>
        /\ threads = <<>>
        /\ goals = <<>>
        /\ ret = NoCall

\* what a call of the matcher leaves
MatcherLeaves(r) ==
    /\ heap' = r.heap
    /\ bound_var_counter' = r.cnt
    /\ last_used_implicit_definition' = r.definition
    /\ last_rw_object' = r.rw
    /\ calls' = calls + 1
    /\ UNCHANGED <<Variables, constants, number_sets, roots, generation,
                   stale, definition_patterns, implicit_definitions, cvars,
                   local_context,
                   threads,
                   goals>>

TestImplicit(test, math_object, is_math_type, implicit_) ==
    /\ calls < MaxCalls
    /\ \E r \in {test_implicit(test, math_object, is_math_type, implicit_,
                               MatcherState)} :
         /\ MatcherLeaves(r)
         /\ ret' = [op |-> "test_implicit", test |-> test,
                    obj |-> math_object, is_math_type |-> is_math_type,
                    implicit |-> implicit_, res |-> r.res, exc |-> r.exc,
                    tried |-> r.tried]

Implicit(self, test) ==
    /\ calls < MaxCalls
    /\ \E r \in {implicit(self, test, MatcherState)} :
         /\ MatcherLeaves(r)
         /\ ret' = [op |-> "implicit", test |-> test, obj |-> self,
                    res |-> r.res, exc |-> r.exc, tried |-> r.tried]

Unfold(self) ==
    /\ calls < MaxCalls
    /\ \E r \in {unfold_implicit_definition(self, MatcherState)} :
         /\ MatcherLeaves(r)
         /\ ret' = [op |-> "unfold_implicit_definition", obj |-> self,
                    res |-> r.obj, exc |-> r.exc]

IsQuantifier(self, is_math_type) ==
    /\ calls < MaxCalls
    /\ \E r \in {is_quantifier(self, is_math_type, MatcherState)} :
         /\ MatcherLeaves(r)
         /\ ret' = [op |-> "is_quantifier", obj |-> self,
                    is_math_type |-> is_math_type, res |-> r.res,
                    exc |-> r.exc]

UnfoldRecursively(self) ==
    /\ calls < MaxCalls
    /\ \E r \in {unfold_implicit_definition_recursively(self,
                                                        MatcherState)} :
         /\ MatcherLeaves(r)
         /\ ret' = [op |-> "unfold_implicit_definition_recursively",
                    obj |-> self, res |-> r.obj, exc |-> r.exc]

\* one call on the freshly parsed proof state
NextMatcher ==
    /\ calls = 0
    /\ \/ \E test \in WrappedTests : \E math_object \in Targets :
          \E is_math_type \in BOOLEAN : \E implicit_ \in BOOLEAN :
              TestImplicit(test, math_object, is_math_type, implicit_)
       \/ \E test \in WrappedTests : \E self \in Targets :
              Implicit(self, test)
       \/ \E self \in Targets \cup {6} : Unfold(self)
       \/ \E self \in Targets \cup {6} : UnfoldRecursively(self)
       \/ \E self \in Targets : \E is_math_type \in BOOLEAN :
              IsQuantifier(self, is_math_type)

SpecMatcher == InitMatcher /\ [][NextMatcher]_vars

\* up to MaxCalls calls, one after the other, with two of the predicates on
\* two of the terms; an unfolding is also called on what the last one
\* returned
LaterTests == {"is_for_all", "is_or"}

LaterTargets == {9, 10}

UnfoldTargets ==
    LaterTargets \cup
    (IF ret.op = "unfold_implicit_definition_recursively" /\ ~ret.exc
     THEN {ret.res} ELSE {})

NextMatcherCalls ==
    \/ \E test \in LaterTests : \E math_object \in LaterTargets :
       \E is_math_type \in BOOLEAN : \E implicit_ \in BOOLEAN :
           TestImplicit(test, math_object, is_math_type, implicit_)
    \/ \E test \in LaterTests : \E self \in LaterTargets :
           Implicit(self, test)
    \/ \E self \in LaterTargets : Unfold(self)
    \/ \E self \in UnfoldTargets : UnfoldRecursively(self)

SpecMatcherCalls == InitMatcher /\ [][NextMatcherCalls]_vars

-----------------------------------------------------------------------------
(* The local contexts.  A Python list is a value here: set_local_context    *)
(* yields the list local_context as the call leaves it (ctx), the           *)
(* _local_context of the bound variables (lc), and the log of its calls on  *)
(* children: for each, the node, the position of the child, and the list    *)
(* of the node before and after the call.                                   *)

LocalContextOf(lc, v) == IF v \in DOMAIN lc THEN lc[v] ELSE <<>>

\* "for child in self.children: if child.is_bound_var: ..."
RECURSIVE SnapshotBoundVars(_, _, _, _, _)
SnapshotBoundVars(h, self, i, ctx, lc) ==
    IF i > Len(h[self].children) THEN [ctx |-> ctx, lc |-> lc]
    ELSE LET child == h[self].children[i] IN
         IF is_bound_var(h, child)
         THEN SnapshotBoundVars(h, self, i + 1, Append(ctx, child),
                                Put(lc, child, ctx))
         ELSE SnapshotBoundVars(h, self, i + 1, ctx, lc)

RECURSIVE set_local_context_(_, _, _, _, _, _)
RECURSIVE PropagateToChildren(_, _, _, _, _, _, _)

\* "for child in self.children: if not self.is_bound_var: ..."; a child
\* that is given the list itself leaves it as its own traversal has made it
PropagateToChildren(h, local_is_local, self, i, ctx, lc, log) ==
    IF i > Len(h[self].children) \/ is_bound_var(h, self)
    THEN [ctx |-> ctx, lc |-> lc, log |-> log]
    ELSE Once(set_local_context_(h, local_is_local, h[self].children[i],
                                 ctx, lc, log),
              LAMBDA r :
                LET after == IF local_is_local THEN ctx ELSE r.ctx IN
                PropagateToChildren(h, local_is_local, self, i + 1, after,
                    r.lc,
                    Append(r.log, [node |-> self, child |-> i,
                                   before |-> ctx, after |-> after])))

set_local_context_(h, local_is_local, self, local_context_, lc, log) ==
    Once(SnapshotBoundVars(h, self, 1, local_context_, lc),
         LAMBDA first :
           PropagateToChildren(h, local_is_local, self, 1, first.ctx,
                               first.lc, log))

\* set_local_context where every child is given the list itself
set_local_contextShared(h, self, lc) ==
    set_local_context_(h, FALSE, self, <<>>, lc, <<>>)

\* self.set_local_context(): local_context is None, hence []
set_local_context(h, self, lc) ==
    set_local_context_(h, ~cvars_get(DO_NOT_NAME, FALSE), self, <<>>, lc,
                       <<>>)

-----------------------------------------------------------------------------
(* The local-context specification: the trees of a proof state have been    *)
(* parsed and set_local_context is called on them, up to MaxCalls calls.    *)
(* The bound variables are x, y, z, v, w, u:  A x, x in A;  E y, A;  their  *)
(* conjunction;  A z, (... and ...);  E w, E v, A;  and, with x outside its *)
(* binder, (A x, x in A) and (E u, x in A).                                 *)

ContextRecords ==
    << <<Var("A", 1), <<>>>>,                               \*  3  A
       <<Plain("TYPE"), <<>>>>,                             \*  4
       <<BVar("x", 2), <<>>>>,                              \*  5  x
       <<BVar("y", 3), <<>>>>,                              \*  6  y
       <<BVar("z", 4), <<>>>>,                              \*  7  z
       <<BVar("v", 5), <<>>>>,                              \*  8  v
       <<BVar("w", 6), <<>>>>,                              \*  9  w
       <<Prop("PROP_BELONGS"), <<5, 3>>>>,                  \* 10  x in A
       <<Prop("QUANT_FORALL"), <<4, 5, 10>>>>,              \* 11  A x, x in A
       <<Prop("QUANT_EXISTS"), <<4, 6, 3>>>>,               \* 12  E y, A
       <<Prop("PROP_AND"), <<11, 12>>>>,                    \* 13
       <<Prop("QUANT_FORALL"), <<4, 7, 13>>>>,              \* 14  A z, ...
       <<Prop("QUANT_EXISTS"), <<4, 8, 3>>>>,               \* 15  E v, A
       <<Prop("QUANT_EXISTS"), <<4, 9, 15>>>>,              \* 16  E w, E v, A
       <<BVar("u", 7), <<>>>>,                              \* 17  u
       <<Prop("QUANT_EXISTS"), <<4, 17, 10>>>>,             \* 18  E u, x in A
       <<Prop("PROP_AND"), <<11, 18>>>> >>                  \* 19

ContextRoots == {3, 5, 11, 12, 13, 14, 15, 16, 19}

\* the option is not set, or set to True, or set to False
ContextOptionValues ==
    {<<>>} \cup {[k \in {DO_NOT_NAME} |-> b] : b \in BOOLEAN}

InitContext ==
    \E built \in {BuildRecords(ContextRecords, 1, EmptyRegistry)} :
        /\ heap = built.heap
        /\ Variables = built.Variables
        /\ constants = built.constants
        /\ number_sets = built.number_sets
        /\ roots = <<>>
        /\ bound_var_counter = 0
        /\ last_used_implicit_definition = NoObject
        /\ last_rw_object = NoObject
        /\ generation = 0
        /\ calls = 0
        /\ stale = 0
        /\ definition_patterns = <<>>
        /\ implicit_definitions = <<>>
        /\ cvars \in ContextOptionValues
        /\ local_context = <<>>
        /\ threads = <<>>
        /\ goals = <<>>
        /\ ret = NoCall

SetLocalContext(self) ==
    /\ calls < MaxCalls
    /\ \E r \in {set_local_context(heap, self, local_context)} :
         /\ local_context' = r.lc
         /\ ret' = [op |-> "set_local_context", obj |-> self,
                    ctx |-> r.ctx, log |-> r.log]
    /\ calls' = calls + 1
    /\ UNCHANGED <<heap, Variables, constants, number_sets,
                   bound_var_counter, last_used_implicit_definition,
                   last_rw_object, roots, generation, stale,
                   definition_patterns, implicit_definitions, cvars,
                   threads,
                   goals>>

NextContext == \E self \in ContextRoots : SetLocalContext(self)

SpecContext == InitContext /\ [][NextContext]_vars

-----------------------------------------------------------------------------
(* Concurrent equality calls.  Each thread runs one call a == b of          *)
(* MathObject.__eq__; a step of a thread is one statement of __eq__ or of  *)
(* mark_identical_bound_vars, and the statements of the threads interleave. *)
(* A thread is [self, other, stack, done, res]; a frame of its stack is one *)
(* activation of MathObject.__eq__: [self, other, pc, i, equal], the first  *)
(* frame being the innermost.  BoundVar.__eq__ reads the tags of the two    *)
(* bound variables it is given in one step.                                 *)

NbThreads == 2

Frame(self, other) ==
    [self |-> self, other |-> other, pc |-> "test", i |-> 1, equal |-> TRUE]

Top(t) == Head(threads[t].stack)

Running(t, pc) ==
    /\ ~threads[t].done
    /\ threads[t].stack # <<>>
    /\ Top(t).pc = pc

SetTop(t, frame) == [threads EXCEPT ![t].stack = <<frame>> \o Tail(@)]

\* "return value": the frame is left; the caller's "if child0 != child1:
\* equal = False" takes the value and the loop goes on, or the top-level
\* call is over
ReturnFrom(t, value) ==
    LET rest == Tail(threads[t].stack) IN
    IF rest = <<>>
    THEN [threads EXCEPT ![t].stack = <<>>, ![t].done = TRUE,
                         ![t].res = value]
    ELSE [threads EXCEPT ![t].stack =
             <<[Head(rest) EXCEPT !.equal = @ /\ value, !.i = @ + 1]>>
                 \o Tail(rest)]

\* the tests before the children are looked at; the math types of the terms
\* compared here are PROP, TYPE or missing, and their comparison writes
\* nothing
\* what no statement of __eq__ writes
ThreadLeaves ==
    UNCHANGED <<Variables, constants, number_sets,
                last_used_implicit_definition, last_rw_object, roots,
                generation, calls, stale, definition_patterns,
                implicit_definitions, cvars, local_context, goals, ret>>

EqTest(t) ==
    /\ Running(t, "test")
    /\ LET self == Top(t).self
           other == Top(t).other
           here == [heap |-> heap, cnt |-> bound_var_counter, log |-> {}]
       IN threads' =
            IF self = other THEN ReturnFrom(t, TRUE)
            ELSE IF is_no_math_type(self) \/ is_no_math_type(other)
            THEN ReturnFrom(t, TRUE)
            ELSE IF ~SameHead(heap, self, other) THEN ReturnFrom(t, FALSE)
            ELSE IF ~PyEq(math_type(heap, self), math_type(heap, other),
                          here).res
            THEN ReturnFrom(t, FALSE)
            ELSE IF Len(heap[self].children) # Len(heap[other].children)
            THEN ReturnFrom(t, FALSE)
            ELSE IF has_bound_var(heap, self)
            THEN SetTop(t, [Top(t) EXCEPT !.pc = "counter"])
            ELSE SetTop(t, [Top(t) EXCEPT !.pc = "loop"])
    /\ UNCHANGED <<heap, bound_var_counter>>
    /\ ThreadLeaves

\* MathObject.bound_var_counter += 1
IncrementCounter(t) ==
    /\ Running(t, "counter")
    /\ bound_var_counter' = bound_var_counter + 1
    /\ threads' = SetTop(t, [Top(t) EXCEPT !.pc = "mark_self"])
    /\ UNCHANGED heap
    /\ ThreadLeaves

\* self.info['bound_var_nb'] = MathObject.bound_var_counter
MarkSelf(t) ==
    /\ Running(t, "mark_self")
    /\ heap' = [heap EXCEPT ![heap[Top(t).self].children[2]].bound_var_nb =
                                bound_var_counter]
    /\ threads' = SetTop(t, [Top(t) EXCEPT !.pc = "mark_other"])
    /\ UNCHANGED bound_var_counter
    /\ ThreadLeaves

\* other.info['bound_var_nb'] = MathObject.bound_var_counter
MarkOther(t) ==
    /\ Running(t, "mark_other")
    /\ heap' = [heap EXCEPT ![heap[Top(t).other].children[2]].bound_var_nb =
                                bound_var_counter]
    /\ threads' = SetTop(t, [Top(t) EXCEPT !.pc = "loop"])
    /\ UNCHANGED bound_var_counter
    /\ ThreadLeaves

\* "if child0 != child1: equal = False": BoundVar.__eq__ answers at once,
\* MathObject.__eq__ is entered
CompareChildren(t) ==
    /\ Running(t, "loop")
    /\ Top(t).i <= Len(heap[Top(t).self].children)
    /\ LET child0 == heap[Top(t).self].children[Top(t).i]
           child1 == heap[Top(t).other].children[Top(t).i]
       IN threads' =
            IF is_bound_var(heap, child0)
            THEN SetTop(t, [Top(t) EXCEPT
                     !.equal = @ /\ BoundVarEqValue(child0, child1, heap),
                     !.i = @ + 1])
            ELSE IF is_bound_var(heap, child1)
            THEN SetTop(t, [Top(t) EXCEPT
                     !.equal = @ /\ BoundVarEqValue(child1, child0, heap),
                     !.i = @ + 1])
            ELSE [threads EXCEPT ![t].stack = <<Frame(child0, child1)>> \o @]
    /\ UNCHANGED <<heap, bound_var_counter>>
    /\ ThreadLeaves

\* the loop is over: "if bound_var_1:", or "return equal"
EndLoop(t) ==
    /\ Running(t, "loop")
    /\ Top(t).i > Len(heap[Top(t).self].children)
    /\ threads' = IF has_bound_var(heap, Top(t).self)
                  THEN SetTop(t, [Top(t) EXCEPT !.pc = "unmark_1"])
                  ELSE ReturnFrom(t, Top(t).equal)
    /\ UNCHANGED <<heap, bound_var_counter>>
    /\ ThreadLeaves

\* bound_var_1.unmark_bound_var()
UnmarkSelf(t) ==
    /\ Running(t, "unmark_1")
    /\ heap' = [heap EXCEPT ![heap[Top(t).self].children[2]].bound_var_nb =
                                DefaultNb]
    /\ threads' = SetTop(t, [Top(t) EXCEPT !.pc = "unmark_2"])
    /\ UNCHANGED bound_var_counter
    /\ ThreadLeaves

\* bound_var_2.unmark_bound_var(), then "return equal"
UnmarkOther(t) ==
    /\ Running(t, "unmark_2")
    /\ is_bound_var(heap, heap[Top(t).other].children[2])
    /\ heap' = [heap EXCEPT ![heap[Top(t).other].children[2]].bound_var_nb =
                                DefaultNb]
    /\ threads' = ReturnFrom(t, Top(t).equal)
    /\ UNCHANGED bound_var_counter
    /\ ThreadLeaves

-----------------------------------------------------------------------------
(* The concurrent specification: thread t compares its own pair of terms,   *)
(* A x, A y, (x in y) on the left and, on the right, either the same over   *)
(* other bound variables or A x, A y, (y in x).  The threads share TYPE     *)
(* and nothing else.                                                        *)

ThreadRecords ==
    << <<Plain("TYPE"), <<>>>>,                             \*  3
       <<BVar("x", 1), <<>>>>,                              \*  4  thread 1, left
       <<BVar("y", 2), <<>>>>,                              \*  5
       <<Prop("PROP_BELONGS"), <<4, 5>>>>,                  \*  6  x in y
       <<Prop("QUANT_FORALL"), <<3, 5, 6>>>>,               \*  7
       <<Prop("QUANT_FORALL"), <<3, 4, 7>>>>,               \*  8  A x, A y, x in y
       <<BVar("x", 3), <<>>>>,                              \*  9  thread 1, right
       <<BVar("y", 4), <<>>>>,                              \* 10
       <<Prop("PROP_BELONGS"), <<9, 10>>>>,                 \* 11
       <<Prop("QUANT_FORALL"), <<3, 10, 11>>>>,             \* 12
       <<Prop("QUANT_FORALL"), <<3, 9, 12>>>>,              \* 13  A x, A y, x in y
       <<BVar("x", 5), <<>>>>,                              \* 14
       <<BVar("y", 6), <<>>>>,                              \* 15
       <<Prop("PROP_BELONGS"), <<15, 14>>>>,                \* 16
       <<Prop("QUANT_FORALL"), <<3, 15, 16>>>>,             \* 17
       <<Prop("QUANT_FORALL"), <<3, 14, 17>>>>,             \* 18  A x, A y, y in x
       <<BVar("x", 7), <<>>>>,                              \* 19  thread 2, left
       <<BVar("y", 8), <<>>>>,                              \* 20
       <<Prop("PROP_BELONGS"), <<19, 20>>>>,                \* 21
       <<Prop("QUANT_FORALL"), <<3, 20, 21>>>>,             \* 22
       <<Prop("QUANT_FORALL"), <<3, 19, 22>>>>,             \* 23
       <<BVar("x", 9), <<>>>>,                              \* 24  thread 2, right
       <<BVar("y", 10), <<>>>>,                             \* 25
       <<Prop("PROP_BELONGS"), <<24, 25>>>>,                \* 26
       <<Prop("QUANT_FORALL"), <<3, 25, 26>>>>,             \* 27
       <<Prop("QUANT_FORALL"), <<3, 24, 27>>>>,             \* 28
       <<BVar("x", 11), <<>>>>,                             \* 29
       <<BVar("y", 12), <<>>>>,                             \* 30
       <<Prop("PROP_BELONGS"), <<30, 29>>>>,                \* 31
       <<Prop("QUANT_FORALL"), <<3, 30, 31>>>>,             \* 32
       <<Prop("QUANT_FORALL"), <<3, 29, 32>>>> >>           \* 33

LeftOf == <<8, 23>>

RightsOf == <<{13, 18}, {28, 33}>>

InitThreads ==
    \E built \in {BuildRecords(ThreadRecords, 1, EmptyRegistry)} :
        /\ heap = built.heap
        /\ Variables = built.Variables
        /\ constants = built.constants
        /\ number_sets = built.number_sets
        /\ roots = <<>>
        /\ bound_var_counter = 0
        /\ last_used_implicit_definition = NoObject
        /\ last_rw_object = NoObject
        /\ generation = 0
        /\ calls = 0
        /\ stale = 0
        /\ definition_patterns = <<>>
        /\ implicit_definitions = <<>>
        /\ cvars = <<>>
        /\ local_context = <<>>
        /\ \E right \in [1..NbThreads -> UNION Range(RightsOf)] :
             /\ \A t \in 1..NbThreads : right[t] \in RightsOf[t]
             /\ threads = [t \in 1..NbThreads |->
                              [self |-> LeftOf[t], other |-> right[t],
                               stack |-> <<Frame(LeftOf[t], right[t])>>,
                               done |-> FALSE, res |-> FALSE]]
        /\ goals = <<>>
        /\ ret = NoCall

NextThreads ==
    \E t \in 1..NbThreads :
        \/ EqTest(t)
        \/ IncrementCounter(t)
        \/ MarkSelf(t)
        \/ MarkOther(t)
        \/ CompareChildren(t)
        \/ EndLoop(t)
        \/ UnmarkSelf(t)
        \/ UnmarkOther(t)

SpecThreads == InitThreads /\ [][NextThreads]_vars

-----------------------------------------------------------------------------
(* Proof states (proof_state.py).  A stream is a string, here the sequence  *)
(* of its tokens: the headers "context:" and "targets:", the name of a      *)
(* record, and the line break.  A Goal is [context, target, future_tags,    *)
(* past_tags_old_context], a pair of tags being [set, context, target];    *)
(* the two lists math_types and                                             *)
(* math_types_instances, which math_type_store fills and nothing here       *)
(* reads, are left out.  The parser of one record, ProofStatePO.from_string, *)
(* builds the term of the record, the children first.                       *)

MaxGoals == 3          \* target records in a targets stream
MaxHypotheses == 2     \* hypothesis records in a hypotheses stream

LineBreak == "\n"

\* str.splitlines(): the lines between the line breaks; no empty last line
RECURSIVE SplitLines(_, _, _)
SplitLines(string, line, lines) ==
    IF string = <<>>
    THEN IF line = <<>> THEN lines ELSE Append(lines, line)
    ELSE IF Head(string) = LineBreak
    THEN SplitLines(Tail(string), <<>>, Append(lines, line))
    ELSE SplitLines(Tail(string), Append(line, Head(string)), lines)

splitlines(string) == SplitLines(string, <<>>, <<>>)

startswith(line, prefix) == line # <<>> /\ Head(line) = prefix

\* the records of the streams: X : TYPE, P : PROP, X : PROP (the name X
\* under another identifier and type), Q : PROP, and the targets P, Q and
\* A x, P
RecordOf ==
    [H_X |-> Tree(Info("LOCAL_CONSTANT", "X", FALSE, 1, NoObject), "TYPE",
                  <<>>),
     H_P |-> Tree(Info("LOCAL_CONSTANT", "P", FALSE, 2, NoObject), "PROP",
                  <<>>),
     H_X2 |-> Tree(Info("LOCAL_CONSTANT", "X", FALSE, 3, NoObject), "PROP",
                   <<>>),
     H_Q |-> Tree(Info("LOCAL_CONSTANT", "Q", FALSE, 4, NoObject), "PROP",
                  <<>>),
     T_P |-> Tree(Info("LOCAL_CONSTANT", "P", FALSE, 2, NoObject), "PROP",
                  <<>>),
     T_Q |-> Tree(Info("LOCAL_CONSTANT", "Q", FALSE, 4, NoObject), "PROP",
                  <<>>),
     T_ALL |-> Tree(Info("QUANT_FORALL", None, FALSE, 0, NoObject), "PROP",
                    << TypeLeaf,
                       Tree(Info("LOCAL_CONSTANT", "x", TRUE, 5, NoObject),
                            "none", <<>>),
                       Tree(Info("LOCAL_CONSTANT", "P", FALSE, 2, NoObject),
                            "PROP", <<>>) >>)]

\* ProofStatePO.from_string(string): the string is one record
from_string(string, st) ==
    IF Len(string) # 1 \/ string[1] \notin DOMAIN RecordOf THEN Failed(st)
    ELSE BuildTree(RecordOf[string[1]], 0, st)

\* the attributes future_tags and past_tags_old_context before compare has
\* set them
NoTags == [set |-> FALSE, context |-> <<>>, target |-> ""]

NewGoal(context, target) ==
    [context |-> context, target |-> target, future_tags |-> NoTags,
     past_tags_old_context |-> NoTags]

GoalBuilt(goal, st) ==
    [goal |-> goal, exc |-> FALSE, heap |-> st.heap,
     Variables |-> st.Variables, constants |-> st.constants,
     number_sets |-> st.number_sets]

GoalFailed(st) ==
    [goal |-> NewGoal(<<>>, NoObject), exc |-> TRUE, heap |-> st.heap,
     Variables |-> st.Variables, constants |-> st.constants,
     number_sets |-> st.number_sets]

\* "for prop_obj_string in lines": the header is skipped, a record is
\* parsed and appended to the context
RECURSIVE ContextOfLines(_, _, _, _)
ContextOfLines(lines, i, context, st) ==
    IF i > Len(lines) THEN [Built(NoObject, st) EXCEPT !.obj = context]
    ELSE IF startswith(lines[i], "context:")
    THEN ContextOfLines(lines, i + 1, context, st)
    ELSE Once(from_string(lines[i], st),
              LAMBDA prop_obj :
                IF prop_obj.exc THEN prop_obj
                ELSE ContextOfLines(lines, i + 1,
                                    Append(context, prop_obj.obj),
                                    RegistryOf(prop_obj)))

\* Goal.from_lean_data(hypo_analysis, target_analysis)
GoalFromLeanData(hypo_analysis, target_analysis, st) ==
    Once(ContextOfLines(splitlines(hypo_analysis), 1, <<>>, st),
         LAMBDA context :
           IF context.exc THEN GoalFailed(RegistryOf(context))
           ELSE Once(from_string(target_analysis, RegistryOf(context)),
                     LAMBDA target :
                       IF target.exc THEN GoalFailed(RegistryOf(target))
                       ELSE GoalBuilt(NewGoal(context.obj, target.obj),
                                      RegistryOf(target))))

ProofStateBuilt(made, st) ==
    [goals |-> made, exc |-> FALSE, heap |-> st.heap,
     Variables |-> st.Variables, constants |-> st.constants,
     number_sets |-> st.number_sets]

ProofStateFailed(st) ==
    [goals |-> <<>>, exc |-> TRUE, heap |-> st.heap,
     Variables |-> st.Variables, constants |-> st.constants,
     number_sets |-> st.number_sets]

\* "for other_string_goal in goals[1:]": Goal.from_lean_data("", ...) is
\* appended to the list for each element of the slice
RECURSIVE OtherGoals(_, _, _)
OtherGoals(slice, made, st) ==
    IF slice = <<>> THEN ProofStateBuilt(made, st)
    ELSE Once(GoalFromLeanData(<<>>, Head(slice), st),
              LAMBDA other_goal :
                IF other_goal.exc
                THEN ProofStateFailed(RegistryOf(other_goal))
                ELSE OtherGoals(Tail(slice), Append(made, other_goal.goal),
                                RegistryOf(other_goal)))

\* ProofState.from_lean_data(hypo_analysis, goals_analysis): the name goals
\* is bound to the lines, then to [main_goal]; the slice goals[1:] of the
\* loop is taken of the latter.  goals[0] of an empty list: IndexError.
ProofStateFromLeanData(hypo_analysis, goals_analysis, st) ==
    LET lines == splitlines(goals_analysis)
        goals_1 == IF lines # <<>> /\ startswith(lines[1], "targets:")
                   THEN Tail(lines) ELSE lines
    IN IF lines = <<>> \/ goals_1 = <<>> THEN ProofStateFailed(st)
       ELSE Once(GoalFromLeanData(hypo_analysis, goals_1[1], st),
                 LAMBDA main_goal :
                   IF main_goal.exc
                   THEN ProofStateFailed(RegistryOf(main_goal))
                   ELSE LET goals_2 == <<main_goal.goal>> IN
                        OtherGoals(Tail(goals_2), goals_2,
                                   RegistryOf(main_goal)))

-----------------------------------------------------------------------------
(* The proof-state specification: one call of ProofState.from_lean_data on  *)
(* a hypotheses stream and a targets stream, in an empty registry.          *)

RECURSIVE Join(_)
Join(lines) ==
    IF lines = <<>> THEN <<>>
    ELSE IF Len(lines) = 1 THEN lines[1]
    ELSE lines[1] \o <<LineBreak>> \o Join(Tail(lines))

RecordLines(names, max) ==
    UNION {[1..n -> {<<name>> : name \in names}] : n \in 0..max}

\* with and without the header line, with and without a last line break
Streams(header, names, max) ==
    LET joined == {Join(lines) : lines \in RecordLines(names, max)}
                    \cup {Join(<<<<header>>>> \o lines) :
                             lines \in RecordLines(names, max)}
    IN joined \cup {string \o <<LineBreak>> : string \in joined \ {<<>>}}

HypothesisStreams == Streams("context:", {"H_X", "H_P"}, MaxHypotheses)

TargetStreams == Streams("targets:", {"T_P", "T_ALL"}, MaxGoals)

FromLeanData(hypo_analysis, goals_analysis) ==
    /\ calls = 0
    /\ \E r \in {ProofStateFromLeanData(hypo_analysis, goals_analysis,
                                        Registry)} :
         /\ heap' = r.heap
         /\ Variables' = r.Variables
         /\ constants' = r.constants
         /\ number_sets' = r.number_sets
         /\ goals' = goals \o r.goals
         /\ ret' = [op |-> "ProofState.from_lean_data",
                    hypo_analysis |-> hypo_analysis,
                    goals_analysis |-> goals_analysis,
                    exc |-> r.exc,
                    goals |-> [k \in 1..Len(r.goals) |-> Len(goals) + k]]
    /\ calls' = calls + 1
    /\ UNCHANGED <<bound_var_counter, last_used_implicit_definition,
                   last_rw_object, roots, generation, stale,
                   definition_patterns, implicit_definitions, cvars,
                   local_context, threads>>

NextProofState ==
    \E hypo_analysis \in HypothesisStreams :
        \E goals_analysis \in TargetStreams :
            FromLeanData(hypo_analysis, goals_analysis)

SpecProofState == Init /\ [][NextProofState]_vars

-----------------------------------------------------------------------------
(* The sequence specification: a sequence u and a set family E are parsed,  *)
(* then two propositions that have them as children; equality is called on  *)
(* the variables, on the lambdas put in their place and on the two          *)
(* propositions, and process_sequences_and_likes is run again on the        *)
(* terms, up to MaxCalls calls.  The numbers are the places in the heap;    *)
(* the terms that from_info_and_children adds on its own are in between.    *)

SequenceRecords ==
    << <<Plain("TYPE"), <<>>>>,                                  \*  3
       <<Plain("SEQUENCE"), <<3, 3>>>>,                          \*  4
       <<Info("LOCAL_CONSTANT", "u", FALSE, 1, 4), <<>>>>,       \*  5  u, 6
       <<Prop("PROP_EQUAL"), <<5, 5>>>>,                         \*  7  u = u
       <<Plain("SET_FAMILY"), <<3, 3>>>>,                        \* 14
       <<Info("LOCAL_CONSTANT", "E", FALSE, 2, 14), <<>>>>,      \* 15  E, 16
       <<Prop("PROP_EQUAL"), <<15, 5>>>> >>                      \* 17  E = u

\* u, E, the three lambdas for u, the lambda for E, the two propositions
SequenceOperands == {5, 15, 10, 13, 23, 20, 7, 17}

InitSequences ==
    \E built \in {BuildRecords(SequenceRecords, 1, EmptyRegistry)} :
        /\ heap = built.heap
        /\ Variables = built.Variables
        /\ constants = built.constants
        /\ number_sets = built.number_sets
        /\ roots = <<>>
        /\ bound_var_counter = 0
        /\ last_used_implicit_definition = NoObject
        /\ last_rw_object = NoObject
        /\ generation = 0
        /\ calls = 0
        /\ stale = 0
        /\ definition_patterns = <<>>
        /\ implicit_definitions = <<>>
        /\ cvars = <<>>
        /\ local_context = <<>>
        /\ threads = <<>>
        /\ goals = <<>>
        /\ ret = NoCall

\* self.process_sequences_and_likes(), once more
ProcessSequencesAndLikes(self) ==
    /\ \E r \in {process_sequences_and_likes(self, Registry)} :
         /\ heap' = r.heap
         /\ Variables' = r.Variables
         /\ constants' = r.constants
         /\ number_sets' = r.number_sets
         /\ ret' = [op |-> "process_sequences_and_likes", obj |-> self,
                    before |-> heap[self].children, exc |-> r.exc]
    /\ calls' = calls + 1
    /\ UNCHANGED <<bound_var_counter, last_used_implicit_definition,
                   last_rw_object, roots, generation, stale,
                   definition_patterns, implicit_definitions, cvars,
                   local_context, threads, goals>>

NextSequences ==
    \/ calls < MaxCalls /\ \E a, b \in SequenceOperands : Equals(a, b)
    \/ calls < MaxCalls /\ \E self \in SequenceOperands :
                              ProcessSequencesAndLikes(self)

SpecSequences == InitSequences /\ [][NextSequences]_vars

-----------------------------------------------------------------------------
(* Goal.compare(old_goal, goal_is_new).  The tags are "+", "=" and "/="     *)
(* (written with the sign "not equal" in the code), "" where none was set.  *)
(* An entry of a context is a term: its name is lean_data["name"], and its  *)
(* math_type is compared with ==.  The call works on st = [heap, cnt, log]  *)
(* as equality does and yields [exc, new_tags, old_tags] with the state it  *)
(* leaves.                                                                  *)

MaxContext == 2        \* entries in a context

Compared(new_tags, old_tags, st) ==
    [exc |-> FALSE, new_tags |-> new_tags, old_tags |-> old_tags,
     heap |-> st.heap, cnt |-> st.cnt, log |-> st.log]

CompareRaised(st) ==
    [exc |-> TRUE, new_tags |-> NoTags, old_tags |-> NoTags,
     heap |-> st.heap, cnt |-> st.cnt, log |-> st.log]

Tags(context, target) == [set |-> TRUE, context |-> context, target |-> target]

\* the local variable old_index before its first assignment
Unbound == 0

\* list.index(name): the first place of name
Index(names, name) ==
    CHOOSE i \in 1..Len(names) :
        names[i] = name /\ \A j \in 1..(i - 1) : names[j] # name

\* "Tag the remaining objects in old_context as new": old_index is 0 and
\* stays 0
TagRemaining(old_context, tags_old_context) ==
    IF \E k \in 1..Len(old_context) : old_context[k] # NoObject
    THEN [tags_old_context EXCEPT ![1] = "+"]
    ELSE tags_old_context

\* "tag the targets", then the two assignments that end compare
TagTargets(new, old, tags_new_context, tags_old_context, st) ==
    Once(PyEq(math_type(st.heap, goals[new].target),
              math_type(st.heap, goals[old].target), st),
         LAMBDA eq :
           IF eq.exc THEN CompareRaised(StateOf(eq))
           ELSE LET tag == IF eq.res THEN "=" ELSE "/=" IN
                Compared(Tags(tags_new_context, tag),
                         Tags(tags_old_context, tag), StateOf(eq)))

\* "for pfPO in new_context": new_index is i - 1; an entry of a context
\* that "will not be considered anymore" is NoObject
RECURSIVE TagNewContext(_, _, _, _, _, _, _, _, _)
TagNewContext(new, old, new_context, old_context, i, old_index, tags_new_context, tags_old_context, st) ==
    LET h == st.heap
        old_names == [k \in 1..Len(goals[old].context) |->
                         h[goals[old].context[k]].name]
    IN
    IF i > Len(new_context)
    THEN TagTargets(new, old, tags_new_context,
                    TagRemaining(old_context, tags_old_context), st)
    ELSE LET pfPO == new_context[i]
             name == h[pfPO].name
             found == name \in Range(old_names)
             index == IF found THEN Index(old_names, name) ELSE old_index
         IN \* old_context[old_index].math_type of None: AttributeError
            IF found /\ old_context[index] = NoObject THEN CompareRaised(st)
            ELSE Once(IF found
                      THEN PyEq(math_type(h, old_context[index]),
                                math_type(h, pfPO), st)
                      ELSE Return(FALSE, st),
                      LAMBDA eq :
                        LET tag == IF ~found THEN "+"
                                   ELSE IF eq.res THEN "=" ELSE "/="
                        IN IF eq.exc THEN CompareRaised(StateOf(eq))
                           \* tags_old_context[old_index]: UnboundLocalError
                           ELSE IF index = Unbound
                           THEN CompareRaised(StateOf(eq))
                           ELSE TagNewContext(new, old,
                                    [new_context EXCEPT ![i] = NoObject],
                                    [old_context EXCEPT ![index] = NoObject],
                                    i + 1, index,
                                    [tags_new_context EXCEPT ![i] = tag],
                                    [tags_old_context EXCEPT ![index] = tag],
                                    StateOf(eq)))

\* new.compare(old, goal_is_new)
compare(new, old, goal_is_new, st) ==
    LET new_context == goals[new].context
        old_context == goals[old].context
    IN IF goal_is_new
       THEN Compared(Tags([k \in 1..Len(new_context) |-> "+"], "+"),
                     Tags([k \in 1..Len(old_context) |-> "+"], "+"), st)
       ELSE TagNewContext(new, old, new_context, old_context, 1, Unbound,
                          [k \in 1..Len(new_context) |-> ""],
                          [k \in 1..Len(old_context) |-> ""], st)

-----------------------------------------------------------------------------
(* The goal specification: an old goal and a new goal are there, with       *)
(* contexts of up to MaxContext entries, and the new one is compared with   *)
(* the old one.  The entries: X : TYPE in two parses, H : P, another H : Q, *)
(* x : X; the targets are P and Q.                                          *)

GoalRecords ==
    << <<Plain("TYPE"), <<>>>>,                                  \*  3
       <<Info("LOCAL_CONSTANT", "X", FALSE, 1, 3), <<>>>>,       \*  4  X
       <<Info("LOCAL_CONSTANT", "P", FALSE, 2, PROP), <<>>>>,    \*  5  P
       <<Info("LOCAL_CONSTANT", "Q", FALSE, 3, PROP), <<>>>>,    \*  6  Q
       <<Info("LOCAL_CONSTANT", "H", FALSE, 4, 5), <<>>>>,       \*  7  H : P
       <<Info("LOCAL_CONSTANT", "H", FALSE, 5, 6), <<>>>>,       \*  8  H : Q
       <<Info("LOCAL_CONSTANT", "x", FALSE, 6, 4), <<>>>>,       \*  9  x : X
       <<Info("METAVAR", None, FALSE, 0, 5), <<>>>>,             \* 10  |- P
       <<Info("METAVAR", None, FALSE, 0, 6), <<>>>>,             \* 11  |- Q
       <<Plain("TYPE"), <<>>>>,                                  \* 12
       <<Info("LOCAL_CONSTANT", "X", FALSE, 7, 12), <<>>>> >>    \* 13  X

OldEntries == {4, 7, 9}

NewEntries == {13, 7, 8, 9}

GoalTargets == {10, 11}

Contexts(entries) == UNION {[1..n -> entries] : n \in 0..MaxContext}

\* goals[1] is the old goal, goals[2] the new one
InitGoals ==
    \E built \in {BuildRecords(GoalRecords, 1, EmptyRegistry)} :
        /\ heap = built.heap
        /\ Variables = built.Variables
        /\ constants = built.constants
        /\ number_sets = built.number_sets
        /\ roots = <<>>
        /\ bound_var_counter = 0
        /\ last_used_implicit_definition = NoObject
        /\ last_rw_object = NoObject
        /\ generation = 0
        /\ calls = 0
        /\ stale = 0
        /\ definition_patterns = <<>>
        /\ implicit_definitions = <<>>
        /\ cvars = <<>>
        /\ local_context = <<>>
        /\ threads = <<>>
        /\ \E old_context \in Contexts(OldEntries) :
           \E new_context \in Contexts(NewEntries) :
           \E old_target \in GoalTargets : \E new_target \in GoalTargets :
               goals = << NewGoal(old_context, old_target),
                          NewGoal(new_context, new_target) >>
        /\ ret = NoCall

Compare(new, old, goal_is_new) ==
    /\ calls = 0
    /\ \E r \in {compare(new, old, goal_is_new, CallState)} :
         /\ heap' = r.heap
         /\ bound_var_counter' = r.cnt
         /\ goals' = IF r.exc THEN goals
                     ELSE [goals EXCEPT
                              ![new].future_tags = r.new_tags,
                              ![old].past_tags_old_context = r.old_tags]
         /\ ret' = [op |-> "compare", new |-> new, old |-> old,
                    goal_is_new |-> goal_is_new, exc |-> r.exc]
    /\ calls' = calls + 1
    /\ UNCHANGED <<Variables, constants, number_sets,
                   last_used_implicit_definition, last_rw_object, roots,
                   generation, stale, definition_patterns,
                   implicit_definitions, cvars, local_context, threads>>

NextGoals == \E goal_is_new \in BOOLEAN : Compare(2, 1, goal_is_new)

SpecGoals == InitGoals /\ [][NextGoals]_vars

-----------------------------------------------------------------------------
(* self.direction_for_substitution_in(other).  It yields [res, exc] with    *)
(* the state it leaves; res is '>', '<', 'both' or ''.                      *)

Direction(res, st) ==
    [res |-> res, exc |-> FALSE, heap |-> st.heap, cnt |-> st.cnt,
     log |-> st.log]

DirectionRaised(st) ==
    [res |-> "", exc |-> TRUE, heap |-> st.heap, cnt |-> st.cnt,
     log |-> st.log]

\* decision[contain_left, contain_right]: the keys are pairs of booleans,
\* which the counts 0 and 1 equal; another count is no key (KeyError)
decision(contain_left, contain_right, st) ==
    IF contain_left \notin {0, 1} \/ contain_right \notin {0, 1}
    THEN DirectionRaised(st)
    ELSE Direction(CASE contain_left = 0 /\ contain_right = 0 -> ""
                     [] contain_left = 1 /\ contain_right = 0 -> ">"
                     [] contain_left = 0 /\ contain_right = 1 -> ">"
                     [] contain_left = 1 /\ contain_right = 1 -> "both",
                   st)

direction_for_substitution_in(self, other, st) ==
    LET h == st.heap
        equality == math_type(h, self)
    IN IF h[equality].node \notin {"PROP_EQUAL", "PROP_IFF"}
       THEN Direction("", st)
       \* left, right = equality.children
       ELSE IF Len(h[equality].children) # 2 THEN DirectionRaised(st)
       ELSE LET left == h[equality].children[1]
                right == h[equality].children[2]
            IN Once(contains(other, left, st),
                    LAMBDA contain_left :
                      IF contain_left.exc
                      THEN DirectionRaised(StateOf(contain_left))
                      ELSE Once(contains(other, right, StateOf(contain_left)),
                                LAMBDA contain_right :
                                  IF contain_right.exc
                                  THEN DirectionRaised(StateOf(contain_right))
                                  ELSE decision(contain_left.val,
                                                contain_right.val,
                                                StateOf(contain_right))))

-----------------------------------------------------------------------------
(* The substitution specification: H is a hypothesis whose math_type is     *)
(* the equality or equivalence of two of the variables a, b, c; the         *)
(* properties are the pairs of these variables under the same node and a    *)
(* conjunction of two of them.                                              *)

SubstitutionNodes == {"PROP_EQUAL", "PROP_IFF"}

SubstitutionVariables == {4, 5, 6}

SubstitutionRecords(node, left, right) ==
    LET mt == IF node = "PROP_IFF" THEN PROP ELSE 3 IN
    << <<Plain("TYPE"), <<>>>>,                                   \*  3
       <<Info("LOCAL_CONSTANT", "a", FALSE, 1, mt), <<>>>>,       \*  4
       <<Info("LOCAL_CONSTANT", "b", FALSE, 2, mt), <<>>>>,       \*  5
       <<Info("LOCAL_CONSTANT", "c", FALSE, 3, mt), <<>>>>,       \*  6
       <<Info(node, None, FALSE, 0, PROP), <<left, right>>>>,     \*  7
       <<Info("LOCAL_CONSTANT", "H", FALSE, 4, 7), <<>>>>,        \*  8
       <<Info(node, None, FALSE, 0, PROP), <<4, 4>>>>,            \*  9
       <<Info(node, None, FALSE, 0, PROP), <<4, 5>>>>,            \* 10
       <<Info(node, None, FALSE, 0, PROP), <<4, 6>>>>,            \* 11
       <<Info(node, None, FALSE, 0, PROP), <<5, 4>>>>,            \* 12
       <<Info(node, None, FALSE, 0, PROP), <<5, 5>>>>,            \* 13
       <<Info(node, None, FALSE, 0, PROP), <<5, 6>>>>,            \* 14
       <<Info(node, None, FALSE, 0, PROP), <<6, 4>>>>,            \* 15
       <<Info(node, None, FALSE, 0, PROP), <<6, 5>>>>,            \* 16
       <<Info(node, None, FALSE, 0, PROP), <<6, 6>>>>,            \* 17
       <<Info("PROP_AND", None, FALSE, 0, PROP), <<11, 15>>>> >>  \* 18

\* self: the hypothesis H, or the variable a, whose math_type is no equality
SubstitutionSelves == {8, 4}

SubstitutionOthers == 9..18

InitSubstitution ==
    \E node \in SubstitutionNodes :
    \E left \in SubstitutionVariables : \E right \in SubstitutionVariables :
    \E built \in {BuildRecords(SubstitutionRecords(node, left, right), 1,
                               EmptyRegistry)} :
        /\ heap = built.heap
        /\ Variables = built.Variables
        /\ constants = built.constants
        /\ number_sets = built.number_sets
        /\ roots = <<>>
        /\ bound_var_counter = 0
        /\ last_used_implicit_definition = NoObject
        /\ last_rw_object = NoObject
        /\ generation = 0
        /\ calls = 0
        /\ stale = 0
        /\ definition_patterns = <<>>
        /\ implicit_definitions = <<>>
        /\ cvars = <<>>
        /\ local_context = <<>>
        /\ threads = <<>>
        /\ goals = <<>>
        /\ ret = NoCall

DirectionForSubstitutionIn(self, other) ==
    /\ calls < MaxCalls
    /\ \E r \in {direction_for_substitution_in(self, other, CallState)} :
         /\ heap' = r.heap
         /\ bound_var_counter' = r.cnt
         /\ ret' = [op |-> "direction_for_substitution_in", obj |-> self,
                    other |-> other, res |-> r.res, exc |-> r.exc]
    /\ calls' = calls + 1
    /\ UNCHANGED <<Variables, constants, number_sets,
                   last_used_implicit_definition, last_rw_object, roots,
                   generation, stale, definition_patterns,
                   implicit_definitions, cvars, local_context, threads,
                   goals>>

NextSubstitution ==
    \E self \in SubstitutionSelves : \E other \in SubstitutionOthers :
        DirectionForSubstitutionIn(self, other)

SpecSubstitution == InitSubstitution /\ [][NextSubstitution]_vars

-----------------------------------------------------------------------------
(* The naming specification: bound variables are constructed from a source  *)
(* name, then named, unnamed and given names.                               *)

MaxBoundVars == 2      \* bound variables constructed in one behaviour
MaxNamings == 3        \* naming calls in one behaviour

\* info['name'] of the records that BoundVar(...) is constructed from
SourceNames == {"x", "_inst_1", "RealSubGroup", NO_NAME, "*no_name*"}

\* the names that the naming methods are called with
GivenNames == {"x", "y"}

\* MathObject.give_name
give_name(h, self, name) == [h EXCEPT ![self].name = name]

BoundVarsOfHeap == {o \in 1..Len(heap) : is_bound_var(heap, o)}

InitNaming ==
    /\ heap = ModuleObjects
    /\ Variables = <<>>
    /\ constants = <<>>
    /\ number_sets = <<>>
    /\ roots = <<>>
    /\ bound_var_counter = 0
    /\ last_used_implicit_definition = NoObject
    /\ last_rw_object = NoObject
    /\ generation = 0
    /\ calls = 0
    /\ stale = 0
    /\ definition_patterns = <<>>
    /\ implicit_definitions = <<>>
    /\ cvars = <<>>
    /\ local_context = <<>>
    /\ threads = <<>>
    /\ goals = <<>>
    /\ ret = NoCall

NamingLeaves ==
    UNCHANGED <<Variables, constants, number_sets, bound_var_counter,
                last_used_implicit_definition, last_rw_object, roots,
                generation, stale, definition_patterns,
                implicit_definitions, cvars, local_context, threads, goals>>

\* BoundVar(node="LOCAL_CONSTANT", info={'name': name}, children=[],
\*          math_type=NO_MATH_TYPE, parent=NO_MATH_TYPE)
NewBoundVar(name) ==
    /\ Cardinality(BoundVarsOfHeap) < MaxBoundVars
    /\ \E r \in {BoundVarInit("LOCAL_CONSTANT", name, 0, <<>>, NO_MATH_TYPE,
                              NO_MATH_TYPE,
                              [heap |-> heap, Variables |-> Variables,
                               constants |-> constants,
                               number_sets |-> number_sets])} :
         /\ heap' = r.heap
         /\ ret' = [op |-> "BoundVar", obj |-> r.obj, name |-> name]
    /\ calls' = calls
    /\ NamingLeaves

NameBoundVar(self, name) ==
    /\ calls < MaxNamings
    /\ heap' = name_bound_var(heap, self, name)
    /\ ret' = [op |-> "name_bound_var", obj |-> self, name |-> name]
    /\ calls' = calls + 1
    /\ NamingLeaves

SetUnnamedBoundVar(self) ==
    /\ calls < MaxNamings
    /\ heap' = set_unnamed_bound_var(heap, self)
    /\ ret' = [op |-> "set_unnamed_bound_var", obj |-> self, name |-> None]
    /\ calls' = calls + 1
    /\ NamingLeaves

GiveName(self, name) ==
    /\ calls < MaxNamings
    /\ heap' = give_name(heap, self, name)
    /\ ret' = [op |-> "give_name", obj |-> self, name |-> name]
    /\ calls' = calls + 1
    /\ NamingLeaves

NextNaming ==
    \/ \E name \in SourceNames : NewBoundVar(name)
    \/ \E self \in BoundVarsOfHeap : \E name \in GivenNames :
         NameBoundVar(self, name)
    \/ \E self \in BoundVarsOfHeap : SetUnnamedBoundVar(self)
    \/ \E self \in BoundVarsOfHeap : \E name \in GivenNames :
         GiveName(self, name)

SpecNaming == InitNaming /\ [][NextNaming]_vars

-----------------------------------------------------------------------------
(* Properties of equality.                                                 *)

EqReturned == ret.op = "eq" /\ ~ret.exc

\* the terms reachable from o through children and math_type
RECURSIVE SubTerms(_, _)
SubTerms(h, o) ==
    {o} \cup UNION {SubTerms(h, c) : c \in Range(h[o].children)}
        \cup (IF h[o].math_type = NoObject THEN {}
              ELSE SubTerms(h, h[o].math_type))

\* The oracle of alpha-equivalence: a deep comparison under an environment
\* env, the sequence of the pairs of bound variables of the binders entered
\* so far.  Binding is the innermost binder of v on side k, 0 when v is free.
RECURSIVE Binding(_, _, _)
Binding(env, k, v) ==
    IF env = <<>> THEN 0
    ELSE IF env[Len(env)][k] = v THEN Len(env)
    ELSE Binding(SubSeq(env, 1, Len(env) - 1), k, v)

RECURSIVE AlphaEq(_, _, _, _)
AlphaEq(h, a, b, env) ==
    IF is_no_math_type(a) \/ is_no_math_type(b) THEN TRUE
    ELSE IF is_bound_var(h, a) \/ is_bound_var(h, b)
    THEN /\ is_bound_var(h, a) /\ is_bound_var(h, b)
         /\ Binding(env, 1, a) = Binding(env, 2, b)
         /\ Binding(env, 1, a) = 0 => h[a].name = h[b].name
    ELSE /\ SameHead(h, a, b)
         /\ AlphaEq(h, math_type(h, a), math_type(h, b), env)
         /\ Len(h[a].children) = Len(h[b].children)
         /\ has_bound_var(h, a) = has_bound_var(h, b)
         /\ LET inner == IF has_bound_var(h, a)
                         THEN Append(env, <<h[a].children[2],
                                            h[b].children[2]>>)
                         ELSE env
            IN \A i \in 1..Len(h[a].children) :
                   AlphaEq(h, h[a].children[i], h[b].children[i], inner)

\* C1: on two terms that share no structure, equals(a, b) returns what the
\* comparison up to a consistent renaming of bound variables returns.
C1_EqualsIsAlphaEquivalence ==
    (EqReturned /\ ret.a = roots[1] /\ ret.b = roots[2])
        => (ret.res <=> AlphaEq(heap, ret.a, ret.b, <<>>))

\* C2: after a top-level equals(a, b) has returned, true or false, every
\* BoundVar reachable from a or b has the default bound_var_nb.
C2_NoTagSurvivesReturn ==
    EqReturned =>
        \A o \in SubTerms(heap, ret.a) \cup SubTerms(heap, ret.b) :
            is_bound_var(heap, o) => bound_var_nb(heap, o) = DefaultNb

\* C3: equals(x, NO_MATH_TYPE) and equals(NO_MATH_TYPE, x) are true for
\* every term x, a BoundVar included.
C3_SentinelEqualsAnything ==
    (ret.op = "eq" /\ (ret.a = NO_MATH_TYPE \/ ret.b = NO_MATH_TYPE))
        => (~ret.exc /\ ret.res)

\* C4: every evaluation of BoundVar.__eq__ on two BoundVars v and w is
\* true when they are the same object; otherwise, when both carry a
\* non-default tag, true iff the tags are equal; otherwise true iff the
\* names are equal.
C4_BoundVarEqByTagsElseNames ==
    ret.op \in {"eq", "contains"} =>
        \A e \in ret.log :
            e.other_is_bound_var =>
                (e.res <=>
                    IF e.self = e.other THEN TRUE
                    ELSE IF e.nb_self # DefaultNb /\ e.nb_other # DefaultNb
                    THEN e.nb_self = e.nb_other
                    ELSE e.name_self = e.name_other)

\* C5: equals(a, a) returns true for every term a: a binder, a BoundVar,
\* NO_MATH_TYPE.
C5_EqualsReflexive ==
    (ret.op = "eq" /\ ret.a = ret.b) => (~ret.exc /\ ret.res)

\* a binder with a nested binder below it has been compared with itself
C5_Witness ==
    /\ EqReturned /\ ret.a = ret.b /\ ret.res
    /\ has_bound_var(heap, ret.a)
    /\ has_bound_var(heap, heap[ret.a].children[3])

-----------------------------------------------------------------------------
(* Properties of containment.  A call leaves the terms as they were but    *)
(* for bound_var_nb, which a comparison of fresh terms does not read before *)
(* writing it: the calls of the right-hand sides are made on the heap the   *)
(* call has left.                                                           *)

ContainsReturned == ret.op = "contains" /\ ~ret.exc

Here == [heap |-> heap, cnt |-> bound_var_counter, log |-> {}]

RECURSIVE SumOfContains(_, _, _)
SumOfContains(children, n, i) ==
    IF i > Len(children) THEN 0
    ELSE contains(children[i], n, Here).val + SumOfContains(children, n, i + 1)

\* C6: for h other than NO_MATH_TYPE, contains(h, n) is 1 if equals(h, n)
\* else 0, plus the sum of contains(c, n) over the children c of h; equals
\* is the MathObject.__eq__ that contains calls.
C6_ContainsCountsRootAndChildren ==
    (ContainsReturned /\ ret.a # NO_MATH_TYPE)
        => ret.val = (IF MathObjectEq(ret.a, ret.b, Here).res THEN 1 ELSE 0)
                       + SumOfContains(heap[ret.a].children, ret.b, 1)

\* C7: contains(NO_MATH_TYPE, n) is 0 for every needle n, NO_MATH_TYPE
\* included.
C7_SentinelContainsNothing ==
    (ret.op = "contains" /\ ret.a = NO_MATH_TYPE)
        => (~ret.exc /\ ret.val = 0)

\* NO_MATH_TYPE has been searched for a needle that it equals
C7_Witness ==
    /\ ContainsReturned /\ ret.a = NO_MATH_TYPE /\ ret.b # NO_MATH_TYPE
    /\ PyEq(ret.a, ret.b, Here).res
    /\ ret.val = 0

\* C8: contains(t, t) is at least 1 for every term t other than
\* NO_MATH_TYPE.
C8_ContainsItself ==
    (ret.op = "contains" /\ ret.a = ret.b /\ ret.a # NO_MATH_TYPE)
        => (~ret.exc /\ ret.val >= 1)

\* a binder has been searched for itself
C8_Witness ==
    /\ ContainsReturned /\ ret.a = ret.b /\ has_bound_var(heap, ret.a)
    /\ ret.val >= 1

-----------------------------------------------------------------------------
(* Properties of the registry.                                             *)

Constructed == ret.op = "from_info_and_children" /\ ~ret.exc

\* C9: within one generation, construction calls whose records carry the
\* same identifier return the identical term.  Every returning call on a
\* record with an identifier returns the term that Variables holds for it
\* after the call, and as long as clear() is not called Variables keeps the
\* term it holds for an identifier.
C9_SameIdentifierSameTerm ==
    [][ /\ generation' = generation =>
               \A i \in DOMAIN Variables :
                   i \in DOMAIN Variables' /\ Variables'[i] = Variables[i]
        /\ ( /\ ret'.op = "from_info_and_children"
             /\ ~ret'.exc
             /\ ret'.info.identifier # 0 ) =>
               /\ ret'.info.identifier \in DOMAIN Variables'
               /\ Variables'[ret'.info.identifier] = ret'.obj ]_vars

\* the record named y with the identifier of the bound variable x has
\* returned that bound variable
C9_Witness ==
    /\ Constructed
    /\ ret.info.identifier = 1 /\ ret.info.name = "y"
    /\ is_bound_var(heap, ret.obj)
    /\ Variables[1] = ret.obj

\* C10: after clear() has returned, Variables, constants and number_sets
\* are empty, bound_var_counter has its initial value and
\* last_used_implicit_definition and last_rw_object are None.
C10_ClearResetsEverything ==
    ret.op = "clear" =>
        /\ DOMAIN Variables = {}
        /\ DOMAIN constants = {}
        /\ number_sets = <<>>
        /\ bound_var_counter = 0
        /\ last_used_implicit_definition = NoObject
        /\ last_rw_object = NoObject

-----------------------------------------------------------------------------
(* Properties of the session generations.                                  *)

\* C11: after clear() has returned, no construction call returns a term
\* that existed when clear() returned, also when its record repeats an
\* identifier or a constant's name of the generation before.
C11_NoStaleTermAfterClear ==
    (Constructed /\ generation > 0) => ret.obj > stale

\* the position of a name in the chain N, Z, Q, R
ChainPosition(name) == IndexOf(NUMBER_SETS_LIST, name)

\* the chain names among the names a call has observed
ChainNames(names) == names \cap Range(NUMBER_SETS_LIST)

\* C12: after every call number_sets has no duplicates, is sorted by chain
\* position and holds exactly the chain names observed since the last
\* clear(): add_numbers_set(name) observes name, a construction that returns
\* observes the display name of its term, a construction that raises
\* observes its record's name or nothing, clear() forgets every name.
C12_NumberSetsSortedChainNames ==
    [][ LET ns == number_sets'
            before == Range(number_sets)
        IN /\ \A i \in 1..Len(ns) : \A j \in 1..Len(ns) :
                  i < j => ChainPosition(ns[i]) < ChainPosition(ns[j])
           /\ Range(ns) \subseteq Range(NUMBER_SETS_LIST)
           /\ ret'.op = "clear" => ns = <<>>
           /\ ret'.op = "add_numbers_set" =>
                  Range(ns) = before \cup ChainNames({ret'.name})
           /\ (ret'.op = "from_info_and_children" /\ ~ret'.exc) =>
                  Range(ns) = before
                      \cup ChainNames({display_name(heap', ret'.obj)})
           /\ (ret'.op = "from_info_and_children" /\ ret'.exc) =>
                  \/ Range(ns) = before
                  \/ Range(ns) = before \cup ChainNames({ret'.info.name})
      ]_vars

\* R, N and Q were there and Z has been inserted at its place
C12_Witness ==
    /\ ret.op = "add_numbers_set" /\ ret.name = "Z"
    /\ number_sets = NUMBER_SETS_LIST

-----------------------------------------------------------------------------
(* Properties of construction.                                             *)

\* C13: when the applications of a head f, not an application, to x1..xn
\* are constructed one at a time, the k-th one has the children
\* <<f, x1, ..., xk>>, also after the next ones have been constructed, and
\* the last one has the children of the application constructed with the
\* n + 1 children f, x1, ..., xn.
C13_ApplicationsAreFlat ==
    ret.op = "apply_chain" =>
        /\ ~ret.exc
        /\ \A k \in 1..Len(ret.args) :
              /\ heap[ret.chain[k]].node = "APPLICATION"
              /\ heap[ret.chain[k]].children
                     = <<ret.f>> \o SubSeq(ret.args, 1, k)
        /\ heap[ret.direct].children = <<ret.f>> \o ret.args
        /\ heap[ret.direct].children
               = heap[ret.chain[Len(ret.args)]].children

\* three arguments, an application among them, have been applied
C13_Witness ==
    /\ ret.op = "apply_chain" /\ ~ret.exc
    /\ Len(ret.args) = 3
    /\ \E k \in 1..3 : heap[ret.args[k]].node = "APPLICATION"
    /\ Len(heap[ret.chain[3]].children) = 4

-----------------------------------------------------------------------------
(* Properties of the wrapped predicates and of the unfoldings.  match is    *)
(* called on the heap the call has left: the terms and the patterns are as  *)
(* they were before the call.                                               *)

LeftMatches(index, term) ==
    match(pattern_left(heap, definition_patterns[index]), term, Here)

\* the indices of the definitions whose left pattern matches term
Matching(term) ==
    {index \in 1..Len(definition_patterns) : LeftMatches(index, term).res}

\* among them, those whose right pattern passes the undecorated test
Justifying(test, term) ==
    {index \in Matching(term) :
        Test(test, heap, pattern_right(heap, definition_patterns[index]),
             TRUE)}

OptionEnabled == ALLOW_IMPLICIT \in DOMAIN cvars /\ cvars[ALLOW_IMPLICIT]

\* o is pattern with the terms of bind in place of its metavariables, a
\* bound variable of the pattern being another bound variable in o
RECURSIVE IsRewrite(_, _, _, _)
IsRewrite(h, pattern, bind, o) ==
    IF is_metavar(h, pattern)
    THEN o = (IF pattern \in DOMAIN bind THEN bind[pattern] ELSE pattern)
    ELSE /\ o # pattern
         /\ h[o].cls = h[pattern].cls
         /\ h[o].node = h[pattern].node
         /\ h[o].name = h[pattern].name
         /\ Len(h[o].children) = Len(h[pattern].children)
         /\ \A i \in 1..Len(h[o].children) :
                IsRewrite(h, h[pattern].children[i], bind, h[o].children[i])

\* C14: a wrapped predicate (is_and, is_or, is_implication, is_exists,
\* is_for_all) returns true iff the direct test holds, or the implicit flag
\* is set and the option allows implicit definitions and some pattern's left
\* side matches the tested type while its right side passes the direct test;
\* with the flag unset or the option off the result is the direct test and
\* no pattern is given to the matcher.
C14_WrappedPredicateResult ==
    ret.op = "test_implicit" =>
        LET direct == Test(ret.test, heap, ret.obj, ret.is_math_type)
            tested == TestedType(heap, ret.obj, ret.is_math_type)
            enabled == ret.implicit /\ OptionEnabled
        IN /\ ~ret.exc
           /\ ret.res = (direct \/ (enabled /\ Justifying(ret.test, tested)
                                                   # {}))
           /\ ~enabled => (ret.res = direct /\ ret.tried = <<>>)

C14_Witness ==
    /\ ret.op = "test_implicit"
    /\ ret.test = "is_for_all"
    /\ ret.obj = 10
    /\ ~ret.is_math_type
    /\ ret.res
    /\ ~Test(ret.test, heap, ret.obj, ret.is_math_type)
    /\ ret.tried # <<>>

\* the last call was an implicit match attempt on the term tested: a wrapped
\* predicate called with the flag, or implicit(test), the option being on
\* and the direct test failing
AttemptOn(tested) ==
    /\ OptionEnabled
    /\ \/ /\ ret.op = "test_implicit"
          /\ ret.implicit
          /\ tested = TestedType(heap, ret.obj, ret.is_math_type)
          /\ ~Test(ret.test, heap, ret.obj, ret.is_math_type)
       \/ /\ ret.op = "implicit"
          /\ tested = ret.obj
          /\ ~Test(ret.test, heap, ret.obj, TRUE)

\* what the attempt returned: a wrapped predicate returns a boolean,
\* implicit(test) the rewritten term or None
AttemptReturned(bool, obj) ==
    IF ret.op = "implicit" THEN ret.res = obj ELSE ret.res = bool

Minimum(S) == CHOOSE n \in S : \A m \in S : n <= m

\* C15: every implicit match attempt overwrites both last-match slots: when
\* it succeeds, last_used_implicit_definition is the first definition in
\* order whose left pattern matched and whose right side passes the test,
\* and last_rw_object is that right side with the matching applied; when it
\* fails, the call returns false and both slots are empty.
C15_AttemptOverwritesSlots ==
    \A tested \in 1..Len(heap) :
        AttemptOn(tested) =>
            LET justifying == Justifying(ret.test, tested) IN
            /\ ~ret.exc
            /\ IF justifying = {}
               THEN /\ AttemptReturned(FALSE, NoObject)
                    /\ last_used_implicit_definition = NoObject
                    /\ last_rw_object = NoObject
               ELSE LET first == Minimum(justifying) IN
                    /\ AttemptReturned(TRUE, last_rw_object)
                    /\ last_used_implicit_definition
                           = implicit_definitions[first]
                    /\ IsRewrite(heap,
                           pattern_right(heap, definition_patterns[first]),
                           LeftMatches(first, tested).bind, last_rw_object)

\* a failed attempt made when the slots held an earlier match
C15_Witness ==
    /\ calls = 2
    /\ ret.op = "test_implicit"
    /\ AttemptOn(TestedType(heap, ret.obj, ret.is_math_type))
    /\ ~ret.res
    /\ ret.tried # <<>>
    /\ Len(heap) > Len(MatcherRecords) + 2
    /\ last_rw_object = NoObject

\* the indices of S in increasing order
RECURSIVE InOrder(_)
InOrder(S) ==
    IF S = {} THEN <<>> ELSE <<Minimum(S)>> \o InOrder(S \ {Minimum(S)})

\* C16: unfold_implicit_definition returns, in definition order, one
\* rewrite of the term for every definition whose left pattern matches it,
\* the rewrite being the right pattern with the matching applied; it returns
\* the empty list, without raising, when no pattern matches.
C16_UnfoldListsEveryMatch ==
    ret.op = "unfold_implicit_definition" =>
        LET matching == InOrder(Matching(ret.obj)) IN
        /\ ~ret.exc
        /\ Len(ret.res) = Len(matching)
        /\ \A k \in 1..Len(matching) :
               IsRewrite(heap,
                   pattern_right(heap, definition_patterns[matching[k]]),
                   LeftMatches(matching[k], ret.obj).bind, ret.res[k])

C16_Witness ==
    /\ ret.op = "unfold_implicit_definition"
    /\ ret.obj = 9
    /\ Len(ret.res) = 3
    /\ implicit_definitions = <<2, 1, 3, 4>>
    /\ heap[ret.res[1]].node = "PROP_OR"
    /\ heap[ret.res[2]].node = "QUANT_FORALL"

C16_WitnessNoMatch ==
    /\ ret.op = "unfold_implicit_definition"
    /\ ret.obj = 11
    /\ definition_patterns # <<>>
    /\ ret.res = <<>>

\* the nodes of the tree of o, through the children
RECURSIVE Nodes(_, _)
Nodes(h, o) == {o} \cup UNION {Nodes(h, c) : c \in Range(h[o].children)}

\* no definition applies at any node of o
NothingToUnfold(o) == \A node \in Nodes(heap, o) : Matching(node) = {}

\* the same node kinds, bound-variable flags, names and child counts at
\* every position, binders binding a bound variable on both sides
RECURSIVE SameShape(_, _, _)
SameShape(h, a, b) ==
    /\ h[a].node = h[b].node
    /\ is_bound_var(h, a) = is_bound_var(h, b)
    /\ h[a].name = h[b].name
    /\ has_bound_var(h, a) = has_bound_var(h, b)
    /\ Len(h[a].children) = Len(h[b].children)
    /\ \A i \in 1..Len(h[a].children) :
           SameShape(h, h[a].children[i], h[b].children[i])

UnfoldedRecursively == ret.op = "unfold_implicit_definition_recursively"

\* the heap of the proof state before the call of SpecMatcher
ParsedHeap == BuildRecords(MatcherRecords, 1, EmptyRegistry).heap

\* C17: for a term t in which no definition applies at any node,
\* unfold_implicit_definition_recursively(t) returns a fresh object that is
\* structurally unchanged (equals(result, t) is true, same node kinds,
\* bound-variable flags, names and child counts at every position, binders
\* still binding a BoundVar at child[1]), and the call mutates no term.
C17_UnfoldNothingReturnsEqualFreshTree ==
    (UnfoldedRecursively /\ NothingToUnfold(ret.obj)) =>
        /\ ~ret.exc
        /\ ret.res # ret.obj
        /\ ret.res > Len(ParsedHeap)
        /\ SubSeq(heap, 1, Len(ParsedHeap)) = ParsedHeap
        /\ SameShape(heap, ret.res, ret.obj)
        /\ LET eq == PyEq(ret.res, ret.obj, Here) IN ~eq.exc /\ eq.res

\* C18: unfold_implicit_definition_recursively is idempotent once nothing
\* is left to unfold: when the term u it returned has no node matched by a
\* definition, the call on u returns a term that equals u.
C18_UnfoldRecursivelyIdempotent ==
    [][(/\ UnfoldedRecursively
        /\ ~ret.exc
        /\ NothingToUnfold(ret.res)
        /\ ret'.op = "unfold_implicit_definition_recursively"
        /\ ret'.obj = ret.res)
       => /\ ~ret'.exc
          /\ LET eq == PyEq(ret'.res, ret.res,
                            [heap |-> heap', cnt |-> bound_var_counter',
                             log |-> {}])
             IN ~eq.exc /\ eq.res]_vars

\* the second of two unfoldings, on the quantified statement that the
\* first one has put for "A included in A"
C18_Witness ==
    /\ UnfoldedRecursively
    /\ ~ret.exc
    /\ calls = 2
    /\ ret.obj > Len(MatcherRecords) + 2
    /\ heap[ret.obj].node = "QUANT_FORALL"
    /\ ret.res > ret.obj
    /\ heap[ret.res].node = "QUANT_FORALL"

-----------------------------------------------------------------------------
(* Properties of the local contexts, for the tree of the last call.         *)

ContextSet == ret.op = "set_local_context"

\* the bound variables met by the traversal, in its order: at a node, the
\* children that are bound variables, then the trees of the children
RECURSIVE Visits(_, _)
RECURSIVE VisitsBelow(_, _, _)
VisitsBelow(h, o, i) ==
    IF i > Len(h[o].children) THEN <<>>
    ELSE Visits(h, h[o].children[i]) \o VisitsBelow(h, o, i + 1)

Visits(h, o) ==
    SelectSeq(h[o].children, LAMBDA c : is_bound_var(h, c))
        \o VisitsBelow(h, o, 1)

FirstVisit(visits, v) ==
    Minimum({i \in 1..Len(visits) : visits[i] = v})

\* C19: after set_local_context has run over a tree from the empty
\* context, the local_context of every bound variable v of the tree lists
\* only other bound variables, each introduced before v: v is not a member
\* of its own local_context and no variable is in it twice, also when v
\* occurs again in the body of its binder.
C19_LocalContextIsSnapshotAtBinding ==
    ContextSet =>
        LET visits == Visits(heap, ret.obj) IN
        \A v \in Range(visits) :
            LET ctx == LocalContextOf(local_context, v) IN
            /\ v \notin Range(ctx)
            /\ Cardinality(Range(ctx)) = Len(ctx)
            /\ \A u \in Range(ctx) :
                   /\ is_bound_var(heap, u)
                   /\ u \in Range(visits)
                   /\ FirstVisit(visits, u) < FirstVisit(visits, v)

\* the number of times the traversal of o meets the bound variable v
Met(h, o, v) ==
    Cardinality({k \in 1..Len(Visits(h, o)) : Visits(h, o)[k] = v})

\* the bound variables introduced strictly inside the tree of child: those
\* that the traversal of root meets under child and nowhere else
IntroducedInside(h, root, child) ==
    {v \in Range(Visits(h, child)) : Met(h, child, v) = Met(h, root, v)}

\* the configuration asks for independent copies: local_is_local
IndependentCopies == ~cvars_get(DO_NOT_NAME, FALSE)

\* C20: set_local_context shares one growing list across the traversal (the
\* local_context of a bound variable contains every other bound variable
\* visited before it, those of earlier sibling subtrees included) unless
\* the configuration asks for independent copies; with independent copies,
\* a bound variable introduced inside one child subtree is not in the
\* local_context of a bound variable introduced inside another child
\* subtree of the same node, and the traversal of a child leaves the list
\* of its parent as it was.
C20_SharedOrIndependentContext ==
    ContextSet =>
        LET visits == Visits(heap, ret.obj) IN
        IF ~IndependentCopies
        THEN \A i \in 1..Len(visits) : \A j \in 1..(i - 1) :
                 visits[j] # visits[i] =>
                     visits[j] \in Range(LocalContextOf(local_context,
                                                        visits[i]))
        ELSE /\ \A n \in Nodes(heap, ret.obj) :
                \A i, j \in 1..Len(heap[n].children) :
                    i # j =>
                      \A u \in IntroducedInside(heap, ret.obj,
                                                 heap[n].children[i]) :
                      \A v \in IntroducedInside(heap, ret.obj,
                                                 heap[n].children[j]) :
                          u \notin Range(LocalContextOf(local_context, v))
             /\ \A k \in 1..Len(ret.log) :
                    ret.log[k].after = ret.log[k].before

\* independent copies: y, bound in the second conjunct, does not see x,
\* bound in the first, and both see z
C20_Witness ==
    /\ ContextSet
    /\ IndependentCopies
    /\ ret.obj = 14
    /\ LocalContextOf(local_context, 6) = <<7>>
    /\ 7 \in Range(LocalContextOf(local_context, 5))

\* one shared list: y sees x
C20_WitnessShared ==
    /\ ContextSet
    /\ ~IndependentCopies
    /\ ret.obj = 14
    /\ {5, 7} \subseteq Range(LocalContextOf(local_context, 6))

-----------------------------------------------------------------------------
(* Properties of concurrent equality calls.                                *)

ThreadHeap == BuildRecords(ThreadRecords, 1, EmptyRegistry).heap

\* what the call of thread t returns when no other call runs
Alone(t) ==
    MathObjectEq(threads[t].self, threads[t].other,
                 [heap |-> ThreadHeap, cnt |-> 0, log |-> {}]).res

\* the bound variables of the two terms thread t compares
BoundVarsOf(t) ==
    {o \in Nodes(heap, threads[t].self) \cup Nodes(heap, threads[t].other) :
        is_bound_var(heap, o)}

\* the activations of thread t that have marked their pair of bound
\* variables and not yet unmarked it
MarkedFrames(t) ==
    {k \in 1..Len(threads[t].stack) :
        /\ threads[t].stack[k].pc \in {"loop", "unmark_1"}
        /\ has_bound_var(heap, threads[t].stack[k].self)}

\* C21: two equality calls interleaved statement by statement over
\* disjoint bound variables are safe: every marked pair of a call carries
\* one tag, the same on both sides and carried by no bound variable of the
\* other call, and a call that has returned has returned what it returns
\* when it runs alone.
C21_ConcurrentEqualsSafe ==
    \A t \in DOMAIN threads :
        /\ \A k \in MarkedFrames(t) :
             LET frame == threads[t].stack[k]
                 bound_var_1 == heap[frame.self].children[2]
                 bound_var_2 == heap[frame.other].children[2]
             IN /\ bound_var_nb(heap, bound_var_1)
                       = bound_var_nb(heap, bound_var_2)
                /\ \A u \in DOMAIN threads \ {t} :
                     \A v \in BoundVarsOf(u) :
                        bound_var_nb(heap, v)
                            # bound_var_nb(heap, bound_var_1)
        /\ threads[t].done => threads[t].res = Alone(t)

-----------------------------------------------------------------------------
(* Properties of proof states.                                              *)

ProofStateReturned == ret.op = "ProofState.from_lean_data"

\* the record lines of a stream, its header left out
RecordLinesOf(stream, header) ==
    SelectSeq(splitlines(stream), LAMBDA line : ~startswith(line, header))

\* the term o is the one of the record line
TermOfLine(o, line) ==
    /\ o # NoObject
    /\ heap[o].node = RecordOf[line[1]].info.node_name
    /\ heap[o].name = RecordOf[line[1]].info.name

\* C22: ProofState.from_lean_data on a hypotheses stream and a targets
\* stream of n target records yields n goals in the order of the stream,
\* the target of goal k being the term of record k, and the first goal
\* carrying the context of the hypotheses stream, one entry per record, in
\* order.
C22_OneGoalPerTargetRecord ==
    ProofStateReturned =>
        LET targets == RecordLinesOf(ret.goals_analysis, "targets:")
            hypotheses == RecordLinesOf(ret.hypo_analysis, "context:")
        IN /\ ~ret.exc
           /\ Len(ret.goals) = Len(targets)
           /\ \A k \in 1..Len(ret.goals) :
                TermOfLine(goals[ret.goals[k]].target, targets[k])
           /\ ret.goals # <<>> =>
                LET context == goals[ret.goals[1]].context IN
                /\ Len(context) = Len(hypotheses)
                /\ \A i \in 1..Len(context) :
                     TermOfLine(context[i], hypotheses[i])

-----------------------------------------------------------------------------
(* Properties of the quantifier predicates.                                 *)

\* the last call was is_for_all or is_exists, implicit definitions not used
QuantifierTested ==
    /\ ret.op = "test_implicit"
    /\ ret.test \in {"is_for_all", "is_exists"}
    /\ ~(ret.implicit /\ OptionEnabled)

\* what the predicate test answers on the same term, without the flag
Answer(test, self, is_math_type) ==
    test_implicit(test, self, is_math_type, FALSE, MatcherState).res

\* C23: on a term whose node is the universal quantifier is_for_all is
\* true and is_exists is false; implicit definitions not used, no term
\* satisfies both, and is_quantifier holds iff exactly one of them holds.
C23_ForAllAndExistsExclusive ==
    /\ QuantifierTested =>
         LET tested == TestedType(heap, ret.obj, ret.is_math_type)
             for_all == IF ret.test = "is_for_all" THEN ret.res
                        ELSE Answer("is_for_all", ret.obj, ret.is_math_type)
             exists == IF ret.test = "is_exists" THEN ret.res
                       ELSE Answer("is_exists", ret.obj, ret.is_math_type)
         IN /\ ~ret.exc
            /\ heap[tested].node = "QUANT_FORALL" => for_all /\ ~exists
            /\ ~(for_all /\ exists)
    /\ ret.op = "is_quantifier" =>
         /\ ~ret.exc
         /\ ret.res =
              (Answer("is_for_all", ret.obj, ret.is_math_type)
                 # Answer("is_exists", ret.obj, ret.is_math_type))

\* is_for_all called on the node A w, w in A
C23_Witness ==
    /\ QuantifierTested
    /\ ret.test = "is_for_all"
    /\ ret.obj = 17
    /\ ret.is_math_type
    /\ ret.res
    /\ ~Answer("is_exists", ret.obj, ret.is_math_type)

\* is_quantifier called on E x, x in A and on a conjunction
C23_WitnessQuantifier ==
    /\ ret.op = "is_quantifier"
    /\ ret.obj = 13
    /\ ret.is_math_type
    /\ ret.res

C23_WitnessNoQuantifier ==
    /\ ret.op = "is_quantifier"
    /\ ret.obj = 11
    /\ ret.is_math_type
    /\ ~ret.res

-----------------------------------------------------------------------------
(* Properties of failed constructions.                                      *)

\* C24: a call of from_info_and_children that raises leaves the registry as
\* it was before the call: Variables, constants and the list of number sets
\* are unchanged, so no term of the failed record is cached.
C24_FailedConstructionLeavesRegistry ==
    [][ret'.op = "from_info_and_children" /\ ret'.exc
          => /\ Variables' = Variables
             /\ constants' = constants
             /\ number_sets' = number_sets]_vars

-----------------------------------------------------------------------------
(* Properties of the sequence rewrite.                                      *)

\* the lambda put in the place of the sequence or set family v: its body
\* applies v to the bound variable of the lambda
IsExpansion(h, o) ==
    /\ h[o].node = "LAMBDA"
    /\ has_bound_var(h, o)
    /\ h[h[o].children[3]].node = "APPLICATION"
    /\ Len(h[h[o].children[3]].children) = 2
    /\ h[h[o].children[3]].children[2] = h[o].children[2]

IsSequenceVariable(h, o) ==
    /\ is_variable(h, o)
    /\ is_sequence(h, o) \/ is_set_family(h, o)
    /\ ~is_bound_var(h, o)

\* the sequence or set family that o is an occurrence of, plain or expanded
SequenceOf(h, o) ==
    IF IsSequenceVariable(h, o) THEN o
    ELSE IF IsExpansion(h, o) THEN h[h[o].children[3]].children[1]
    ELSE NoObject

\* C25: the lambda put in the place of a sequence or set family compares
\* equal to every other occurrence of the same variable, be it another
\* lambda over another fresh bound variable or the plain variable; and
\* process_sequences_and_likes run again on a term leaves its children as
\* they are.
C25_SequenceRewriteKeepsEquality ==
    /\ ( /\ ret.op = "eq"
         /\ IsExpansion(heap, ret.a) \/ IsExpansion(heap, ret.b)
         /\ SequenceOf(heap, ret.a) # NoObject
         /\ SequenceOf(heap, ret.a) = SequenceOf(heap, ret.b) )
       => ~ret.exc /\ ret.res
    /\ ret.op = "process_sequences_and_likes"
       => ~ret.exc /\ heap[ret.obj].children = ret.before

-----------------------------------------------------------------------------
(* Properties of Goal.compare.                                              *)

GoalsCompared == ret.op = "compare"

NameOf(o) == heap[o].name

\* the math_types of two entries are equal, as == answers on the terms
SameMathType(a, b) ==
    PyEq(math_type(heap, a), math_type(heap, b), CallState).res

\* the tag that the new entry pfPO deserves against the old entry
TagAgainst(old_entry, pfPO) ==
    IF SameMathType(old_entry, pfPO) THEN "=" ELSE "/="

\* C26: a comparison of a new goal with an old goal completes for any pair
\* of contexts; when goal_is_new every tag is "+"; otherwise a new entry
\* is tagged "+" when no old entry has its name and else "=" or "/=" as
\* its math_type equals or differs from that of an old entry of this name,
\* which receives the same tag; an old entry whose name no new entry has
\* is tagged "+"; the targets are tagged "=" iff their math_types are equal
\* and "/=" otherwise.
C26_CompareTags ==
    GoalsCompared =>
        LET new_goal == goals[ret.new]
            old_goal == goals[ret.old]
            new_context == new_goal.context
            old_context == old_goal.context
            new_tags == new_goal.future_tags
            old_tags == old_goal.past_tags_old_context
        IN /\ ~ret.exc
           /\ new_tags.set /\ old_tags.set
           /\ Len(new_tags.context) = Len(new_context)
           /\ Len(old_tags.context) = Len(old_context)
           /\ ret.goal_is_new =>
                /\ \A i \in 1..Len(new_context) : new_tags.context[i] = "+"
                /\ \A j \in 1..Len(old_context) : old_tags.context[j] = "+"
                /\ new_tags.target = "+" /\ old_tags.target = "+"
           /\ ~ret.goal_is_new =>
                /\ \A i \in 1..Len(new_context) :
                     IF \A j \in 1..Len(old_context) :
                            NameOf(old_context[j]) # NameOf(new_context[i])
                     THEN new_tags.context[i] = "+"
                     ELSE \E j \in 1..Len(old_context) :
                            /\ NameOf(old_context[j]) = NameOf(new_context[i])
                            /\ new_tags.context[i]
                                 = TagAgainst(old_context[j], new_context[i])
                            /\ old_tags.context[j] = new_tags.context[i]
                /\ \A j \in 1..Len(old_context) :
                     (\A i \in 1..Len(new_context) :
                         NameOf(new_context[i]) # NameOf(old_context[j]))
                     => old_tags.context[j] = "+"
                /\ new_tags.target
                     = TagAgainst(old_goal.target, new_goal.target)
                /\ old_tags.target = new_tags.target

-----------------------------------------------------------------------------
(* Properties of direction_for_substitution_in.                             *)

DirectionReturned == ret.op = "direction_for_substitution_in"

\* a term equal to x is found in o, at the root or under its children
RECURSIVE OccursIn(_, _)
OccursIn(x, o) ==
    \/ MathObjectEq(o, x, CallState).res
    \/ \E k \in 1..Len(heap[o].children) : OccursIn(x, heap[o].children[k])

\* C27: for self whose math_type is an equality or an equivalence of left
\* and right, direction_for_substitution_in(other) returns '>' when only
\* left occurs in other, '<' when only right occurs, 'both' when both
\* occur and '' when neither does, whatever the number of occurrences; it
\* returns '' when the math_type of self is neither.
C27_DirectionForSubstitution ==
    DirectionReturned =>
        LET equality == math_type(heap, ret.obj)
            left == heap[equality].children[1]
            right == heap[equality].children[2]
        IN /\ ~ret.exc
           /\ IF heap[equality].node \notin {"PROP_EQUAL", "PROP_IFF"}
              THEN ret.res = ""
              ELSE ret.res =
                     CASE OccursIn(left, ret.other)
                            /\ ~OccursIn(right, ret.other) -> ">"
                       [] ~OccursIn(left, ret.other)
                            /\ OccursIn(right, ret.other) -> "<"
                       [] OccursIn(left, ret.other)
                            /\ OccursIn(right, ret.other) -> "both"
                       [] OTHER -> ""

-----------------------------------------------------------------------------
(* Properties of the names of bound variables.                              *)

\* C28: after any sequence of constructions of bound variables and calls of
\* name_bound_var, set_unnamed_bound_var and give_name, is_unnamed is true
\* of a bound variable iff its name is 'NO NAME'; and a freshly
\* constructed bound variable is unnamed with bound_var_nb -1, unless its
\* source name is one of the names kept as they are.
C28_UnnamedIffNoName ==
    /\ \A o \in BoundVarsOfHeap :
         heap[o].is_unnamed <=> heap[o].name = NO_NAME
    /\ ret.op = "BoundVar" =>
         \/ keep_lean_name(ret.name) /\ ~heap[ret.obj].is_unnamed
                                     /\ heap[ret.obj].name = ret.name
         \/ /\ ~keep_lean_name(ret.name)
            /\ heap[ret.obj].is_unnamed
            /\ heap[ret.obj].bound_var_nb = DefaultNb

-----------------------------------------------------------------------------
(* Symmetry of equality.                                                    *)

\* other == self, called in the state that self == other was called in
Converse(a, b) == PyEq(b, a, CallState)

\* C29: equality is symmetric and total: for all terms a and b (binders,
\* bound variables, plain terms, a binder compared with a term of the same
\* node and three children whose children[1] is no bound variable
\* included), a == b and b == a both return a boolean without raising, and
\* the same one.
C29_EqualsSymmetricAndTotal ==
    [][ret'.op = "eq" =>
          /\ ~ret'.exc
          /\ ~Converse(ret'.a, ret'.b).exc
          /\ Converse(ret'.a, ret'.b).res = ret'.res]_vars

-----------------------------------------------------------------------------
(* Consistency of the two last-match slots.                                 *)

\* the two slots were set by one match: of the definition at index with
\* some term, rw being the right pattern with this matching applied
SetBySameMatch(definition, rw) ==
    \E index \in 1..Len(definition_patterns) :
        /\ implicit_definitions[index] = definition
        /\ \E term \in 1..Len(heap) :
             /\ LeftMatches(index, term).res
             /\ IsRewrite(heap,
                    pattern_right(heap, definition_patterns[index]),
                    LeftMatches(index, term).bind, rw)

\* C30: after any sequence of calls of the wrapped predicates (implicit or
\* not), of implicit(test) and of the unfoldings, the two last-match slots
\* are consistent: last_used_implicit_definition and last_rw_object are
\* both empty, or both set by the same match, last_rw_object being the
\* rewrite produced by the pattern of the definition that
\* last_used_implicit_definition records.
C30_LastMatchSlotsConsistent ==
    \/ /\ last_used_implicit_definition = NoObject
       /\ last_rw_object = NoObject
    \/ /\ last_used_implicit_definition # NoObject
       /\ last_rw_object # NoObject
       /\ SetBySameMatch(last_used_implicit_definition, last_rw_object)

====
